---- MODULE Spec2Model ----
(***************************************************************************)
(* State-machine model of the conversation orchestrator VoiceAIAssistant   *)
(* (src/assistant.py): the command queue, the processing worker threads,   *)
(* the state notifications, the conversation history and the error         *)
(* auto-revert timers.                                                     *)
(*                                                                         *)
(* Texts are sequences of tokens: a token stands for a word or a piece of  *)
(* a word of the Russian source text, transliterated to ASCII ("privet"    *)
(* for the greeting, "otkroy" for the open command, ...), for a blank or   *)
(* for one character.  The substring test `word in text_lower` is the      *)
(* containment of the keyword's tokens, in a row, in the lowered text.     *)
(* Timestamps are left out.                                                *)
(***************************************************************************)
EXTENDS Integers, Sequences, FiniteSets, TLC

(***************************************************************************)
(* Bounds of the model.                                                    *)
(***************************************************************************)
\* Length limit of the history.  The code sets self.max_history = 100
\* (src/assistant.py:67); the model scales the limit down so that the
\* truncation is reached after two commands.
max_history == 2

\* Number of send_text_command() calls in one behaviour.
MaxCommands == 2

\* Number of worker threads start() may spawn in one behaviour.
MaxWorkers == 2

Workers == 1 .. MaxWorkers

VARIABLES
    state,                  \* self.state (AssistantState value)
    is_running,             \* self.is_running
    command_queue,          \* self.command_queue (FIFO of texts)
    conversation_history,   \* self.conversation_history
    processing_thread,      \* self.processing_thread: index of the last spawned worker, 0 = None
    available,              \* mistral_client is set and is_available()
    pc,                     \* control point of each worker thread
    level,                  \* 0 = try body of _process_command, 1 = its except handler,
                            \* 2 = the except handler of _processing_loop
    cur,                    \* the command a worker has dequeued (id = submission number)
    reply,                  \* locals of _process_command: response, metadata["source"], skill_result,
                            \* the number of generate_response calls it made and, until
                            \* the next statement, the messages assembled for the model
    log,                    \* per worker: what the current command did and notified, in order
    timers,                 \* pending threading.Timer threads, by the id of the command that started them
    ui,                     \* the caller of start()/stop(): "ready", or "joining" inside stop()
    submitted,              \* number of send_text_command() calls so far
    unnotified,             \* assignments of self.state whose on_state_change call did not happen
    config,                 \* self.config, the result of _load_config
    api_key,                \* MistralClient.api_key, a sequence of characters
    client_available,       \* MistralClient.available
    response_cache,         \* MistralClient.response_cache: the entries in insertion order
    stats,                  \* MistralClient.stats
    last_call,              \* the last generate_response call: its number, cache key and result
    frame,                  \* per thread inside generate_response: its position and locals
    prompt                  \* the last _prepare_messages call made on its own: its arguments
                            \* and the message list it returned

assistantVars == << state, is_running, command_queue, conversation_history, processing_thread,
                    available, pc, level, cur, reply, log, timers, ui, submitted, unnotified,
                    config >>

clientVars == << api_key, client_available, response_cache, stats, last_call, frame, prompt >>

vars == << assistantVars, clientVars, config >>

(***************************************************************************)
(* Data.  A text is a sequence of tokens: a token is a piece of a word (a  *)
(* keyword or a part of one), a blank or a character.  A keyword is a      *)
(* sequence of tokens, and `keyword in text` is the containment of a       *)
(* contiguous subsequence.                                                 *)
(***************************************************************************)
AssistantState == {"idle", "listening", "processing", "speaking", "error"}

ConversationMessage(role, content) == [role |-> role, content |-> content]

\* `opened` lists the calls of webbrowser.open made by the handler.
SkillResult(success, response, should_continue) ==
    [raised |-> FALSE, success |-> success, response |-> response,
     should_continue |-> should_continue, opened |-> << >>]

\* An exception that leaves _check_skills (no SkillResult is returned).
SkillRaises ==
    [raised |-> TRUE, success |-> FALSE, response |-> << >>, should_continue |-> TRUE,
     opened |-> << >>]

\* The result of a handler that has called webbrowser.open(url) on the way.
Opened(result, url) == [result EXCEPT !.opened = @ \o <<url>>]

NoCommand == [id |-> 0, text |-> << >>]
NoReply ==
    [response |-> << >>, source |-> "none", calls |-> 0, skill_result |-> SkillRaises,
     prompt |-> << >>]

\* The texts the model submits: a greeting (no skill), "open the browser"
\* (system skill, which opens a web browser) and "clear the history".
Commands == { <<"privet">>, <<"otkroy", " ", "brauzer">>, <<"ochisti", " ", "istoriyu">> }

\* The texts of the commands whose handling by the skills is followed.
SkillTexts ==
    {
      \* time and date: a keyword, capitals, and "data" inside a longer word
      <<"kotoryy", " ", "chas">>,
      <<"VREMYA">>,
      <<"kandi", "data">>,
      <<"segodnya", " ", "chislo">>,
      <<"skolko", " ", "vremeni">>,
      \* keywords of two categories
      <<"pogoda", " ", "vremya">>,
      <<"Pogoda", " ", "zapusti">>,
      <<"otkroy", " ", "brauzer">>,
      <<"naydi", " ", "kalkulyator">>,
      <<"poschitay", " ", "shutka">>,
      <<"shutka", " ", "zapis">>,
      <<"zapomni", " ", "napomni">>,
      <<"napomni", " ", "ochisti", " ", "istoriyu">>,
      \* no keyword
      <<"privet">>,
      <<"kak", " ", "dela">>,
      \* system
      <<"zapusti", " ", "kalkulyator">>,
      <<"zakroy">>,
      \* web search
      <<"NAYDI">>,
      <<"naydi", " ">>,
      <<"yutub">>,
      <<"gugl", " ", "ishchi">>,
      <<"naydi", " ", "YouTube">>,
      <<"naydi", " ", "kotiki">>,
      <<"po", "ishchi", " ", "Kotiki", " ", "yutub">>,
      <<"youtube", " ", "naydi", " ", "kotiki">>,
      \* calculation
      <<"poschitay">>,
      <<"poschitay", " ", "2", "+", "2">>,
      <<"Poschitay", " ", "2", "X", "3">>,
      <<"vychisli", " ", "2", "kha", "3">>,
      <<"skolko", " ", "budet", " ", "2", ",", "5", "+", "1">>,
      <<"poschitay", " ", "2", "+", "a">>,
      <<"poschitay", " ", "2", "^", "3">>,
      <<"poschitay", " ", "5", "/", "0">>,
      <<"poschitay", " ", "1", "/", "(", "2", "-", "2", ")">>,
      <<"poschitay", " ", "2", "+">>,
      <<"poschitay", " ", "0", "1", "0", "+", "1">>,
      <<"poschitay", " ", "4", "/", "2">>,
      <<"poschitay", " ", "(", "2", "+", "3", ")", "*", "4">>,
      <<"poschitay", " ", "2", "-", "5">>,
      <<"kalkulyator", " ", "7", "/", "2">>,
      <<"poschitay", " ", "1", "2", " ", "+", " ", "3", "0">>,
      \* entertainment, note, reminder, clear history
      <<"anekdot">>,
      <<"muzyka">>,
      <<"film">>,
      <<"zapishi">>,
      <<"napominanie">>,
      <<"ochisti", " ", "istoriyu">>,
      <<"novaya", " ", "sessiya">>
    }

\* word in text
Contains(text, word) ==
    \E i \in 1 .. Len(text) - Len(word) + 1 : SubSeq(text, i, i + Len(word) - 1) = word

\* any(word in text for word in words)
Has(text, words) == \E word \in words : Contains(text, word)

Count(s, e) == Cardinality({i \in 1 .. Len(s) : s[i] = e})

Range(s) == {s[i] : i \in 1 .. Len(s)}

\* str.lower(): the tokens written with capitals and their lower-case forms.
LowerToken(t) ==
    CASE t = "VREMYA" -> "vremya"
      [] t = "Pogoda" -> "pogoda"
      [] t = "NAYDI" -> "naydi"
      [] t = "Poschitay" -> "poschitay"
      [] t = "YouTube" -> "youtube"
      [] t = "X" -> "x"
      [] t = "KHA" -> "kha"
      [] t = "Kotiki" -> "kotiki"
      [] OTHER -> t

lower(text) == [i \in 1 .. Len(text) |-> LowerToken(text[i])]

\* str.strip(): without the leading and the trailing blanks.
StripSpaces(s) ==
    LET solid == {i \in 1 .. Len(s) : s[i] # " "}
    IN  IF solid = {} THEN << >>
        ELSE SubSeq(s, CHOOSE i \in solid : \A j \in solid : i <= j,
                       CHOOSE i \in solid : \A j \in solid : i >= j)

\* text.replace(word, ""): every occurrence, from the left.
RECURSIVE Replace(_, _)
Replace(text, word) ==
    IF Len(text) < Len(word) THEN text
    ELSE IF SubSeq(text, 1, Len(word)) = word
    THEN Replace(SubSeq(text, Len(word) + 1, Len(text)), word)
    ELSE <<text[1]>> \o Replace(Tail(text), word)

\* for keyword in keywords: text = text.replace(keyword, ""), in the order of the list.
RECURSIVE Strip(_, _)
Strip(text, keywords) ==
    IF keywords = << >> THEN text ELSE Strip(Replace(text, Head(keywords)), Tail(keywords))

(***************************************************************************)
(* eval(expression) of _skill_calculation, for the expressions written     *)
(* with the characters 0123456789+-*/.() and the blank: numbers, the       *)
(* binary + - * /, the unary + and -, and parentheses, as Python reads and *)
(* evaluates them.  The operators ** and // and the empty tuple () are     *)
(* not evaluated here, nor is arithmetic on a rounded float (PyEval says   *)
(* "unmodelled"); no text of the model has them.  A number is a fraction   *)
(* num/den with the mark `float`.                                          *)
(***************************************************************************)
Digits == {"0", "1", "2", "3", "4", "5", "6", "7", "8", "9"}

DigitValue(c) ==
    CASE c = "0" -> 0 [] c = "1" -> 1 [] c = "2" -> 2 [] c = "3" -> 3 [] c = "4" -> 4
      [] c = "5" -> 5 [] c = "6" -> 6 [] c = "7" -> 7 [] c = "8" -> 8 [] c = "9" -> 9

DigitChar(d) == <<"0", "1", "2", "3", "4", "5", "6", "7", "8", "9">>[d + 1]

Abs(n) == IF n < 0 THEN 0 - n ELSE n

RECURSIVE GCD(_, _)
GCD(a, b) == IF b = 0 THEN a ELSE GCD(b, a % b)

\* The fraction n/d (d # 0) in lowest terms with a positive denominator.
Number(n, d, float) ==
    LET g == GCD(Abs(n), Abs(d))
        sign == IF d < 0 THEN 0 - 1 ELSE 1
    IN  [num |-> sign * (n \div g), den |-> Abs(d) \div g, float |-> float,
         zero |-> FALSE, rounded |-> FALSE]

\* The mark of an operation that raised ZeroDivisionError.
DividedByZero == [num |-> 0, den |-> 1, float |-> FALSE, zero |-> TRUE, rounded |-> FALSE]

RECURSIVE PowerOfTwo(_)
PowerOfTwo(d) == IF d = 1 THEN TRUE ELSE IF d % 2 = 0 THEN PowerOfTwo(d \div 2) ELSE FALSE

\* A float is a binary fraction: one whose denominator is not a power of two
\* is held rounded, and arithmetic on it is not followed here.
Inexact(a) == a.float /\ ~PowerOfTwo(a.den)
Rounded == [num |-> 0, den |-> 1, float |-> TRUE, zero |-> FALSE, rounded |-> TRUE]

BinaryOp(op, a, b) ==
    IF a.rounded \/ b.rounded \/ Inexact(a) \/ Inexact(b) THEN Rounded
    ELSE IF a.zero \/ b.zero THEN DividedByZero
    ELSE CASE op = "+" -> Number(a.num * b.den + b.num * a.den, a.den * b.den,
                                 a.float \/ b.float)
           [] op = "-" -> Number(a.num * b.den - b.num * a.den, a.den * b.den,
                                 a.float \/ b.float)
           [] op = "*" -> Number(a.num * b.num, a.den * b.den, a.float \/ b.float)
           [] op = "/" -> IF b.num = 0 THEN DividedByZero
                          ELSE Number(a.num * b.den, a.den * b.num, TRUE)

Negated(a) == IF a.zero \/ a.rounded THEN a ELSE [a EXCEPT !.num = 0 - a.num]

RECURSIVE DigitsValue(_)
DigitsValue(s) ==
    IF s = << >> THEN 0 ELSE 10 * DigitsValue(SubSeq(s, 1, Len(s) - 1)) + DigitValue(s[Len(s)])

RECURSIVE Power10(_)
Power10(n) == IF n = 0 THEN 1 ELSE 10 * Power10(n - 1)

\* A run of digits and points is a literal when it has a digit and at most one
\* point; a literal without a point that begins with 0 must be all zeros.
ValidLiteral(s) ==
    LET points == {i \in 1 .. Len(s) : s[i] = "."}
    IN  /\ Cardinality(points) <= 1
        /\ Len(s) > Cardinality(points)
        /\ (points = {} /\ Len(s) > 1 /\ s[1] = "0") => \A i \in 1 .. Len(s) : s[i] = "0"

LiteralValue(s) ==
    LET points == {i \in 1 .. Len(s) : s[i] = "."}
    IN  IF points = {} THEN Number(DigitsValue(s), 1, FALSE)
        ELSE LET p == CHOOSE i \in points : TRUE
             IN  Number(DigitsValue(SubSeq(s, 1, p - 1) \o SubSeq(s, p + 1, Len(s))),
                        Power10(Len(s) - p), TRUE)

\* The index of the last character of the run of digits and points that begins at i.
RECURSIVE RunEnd(_, _)
RunEnd(s, i) ==
    IF i < Len(s) /\ s[i + 1] \in Digits \cup {"."} THEN RunEnd(s, i + 1) ELSE i

\* The tokens of the expression from its i-th character on.
RECURSIVE Tokens(_, _)
Tokens(s, i) ==
    IF i > Len(s) THEN << >>
    ELSE IF s[i] = " " THEN Tokens(s, i + 1)
    ELSE IF s[i] \in Digits \cup {"."}
    THEN << [kind |-> "number", text |-> SubSeq(s, i, RunEnd(s, i))] >>
         \o Tokens(s, RunEnd(s, i) + 1)
    ELSE IF s[i] \in {"*", "/"} /\ i < Len(s) /\ s[i + 1] = s[i]
    THEN << [kind |-> "unmodelled", text |-> <<s[i], s[i]>>] >> \o Tokens(s, i + 2)
    ELSE << [kind |-> "operator", text |-> <<s[i]>>] >> \o Tokens(s, i + 1)

IsOp(t, i, ops) == i <= Len(t) /\ t[i].kind = "operator" /\ t[i].text[1] \in ops

SyntaxError == [ok |-> FALSE, pos |-> 0, val |-> DividedByZero]
Parsed(pos, val) == [ok |-> TRUE, pos |-> pos, val |-> val]

\* The grammar: sum := term (("+" | "-") term)*, term := factor (("*" | "/") factor)*,
\* factor := ("+" | "-") factor | atom, atom := number | "(" sum ")".
\* Each operator reads from token i and yields the value and the next index.
RECURSIVE ParseSum(_, _)
RECURSIVE SumRest(_, _)
RECURSIVE ParseTerm(_, _)
RECURSIVE TermRest(_, _)
RECURSIVE ParseFactor(_, _)

ParseAtom(t, i) ==
    IF i > Len(t) THEN SyntaxError
    ELSE IF t[i].kind = "number"
    THEN IF ValidLiteral(t[i].text) THEN Parsed(i + 1, LiteralValue(t[i].text))
         ELSE SyntaxError
    ELSE IF IsOp(t, i, {"("})
    THEN LET inner == ParseSum(t, i + 1)
         IN  IF inner.ok /\ IsOp(t, inner.pos, {")"}) THEN Parsed(inner.pos + 1, inner.val)
             ELSE SyntaxError
    ELSE SyntaxError

ParseFactor(t, i) ==
    IF IsOp(t, i, {"+", "-"})
    THEN LET operand == ParseFactor(t, i + 1)
         IN  IF ~operand.ok THEN SyntaxError
             ELSE Parsed(operand.pos,
                         IF t[i].text[1] = "-" THEN Negated(operand.val) ELSE operand.val)
    ELSE ParseAtom(t, i)

TermRest(t, left) ==
    IF IsOp(t, left.pos, {"*", "/"})
    THEN LET right == ParseFactor(t, left.pos + 1)
         IN  IF ~right.ok THEN SyntaxError
             ELSE TermRest(t, Parsed(right.pos,
                                     BinaryOp(t[left.pos].text[1], left.val, right.val)))
    ELSE left

ParseTerm(t, i) ==
    LET first == ParseFactor(t, i)
    IN  IF first.ok THEN TermRest(t, first) ELSE SyntaxError

SumRest(t, left) ==
    IF IsOp(t, left.pos, {"+", "-"})
    THEN LET right == ParseTerm(t, left.pos + 1)
         IN  IF ~right.ok THEN SyntaxError
             ELSE SumRest(t, Parsed(right.pos,
                                    BinaryOp(t[left.pos].text[1], left.val, right.val)))
    ELSE left

ParseSum(t, i) ==
    LET first == ParseTerm(t, i)
    IN  IF first.ok THEN SumRest(t, first) ELSE SyntaxError

\* An expression the evaluation above does not cover.
Unmodelled(expression) ==
    LET t == Tokens(expression, 1)
    IN  \/ \E i \in 1 .. Len(t) : t[i].kind = "unmodelled"
        \/ \E i \in 1 .. Len(t) - 1 : IsOp(t, i, {"("}) /\ IsOp(t, i + 1, {")"})

\* eval(expression): the value, ZeroDivisionError, or another exception (SyntaxError).
PyEval(expression) ==
    LET t == Tokens(expression, 1)
        r == ParseSum(t, 1)
    IN  IF Unmodelled(expression) \/ (r.ok /\ r.val.rounded) THEN [outcome |-> "unmodelled", value |-> DividedByZero]
        ELSE IF ~r.ok \/ r.pos # Len(t) + 1
        THEN [outcome |-> "error", value |-> DividedByZero]
        ELSE IF r.val.zero THEN [outcome |-> "zero_division", value |-> r.val]
        ELSE [outcome |-> "value", value |-> r.val]

\* str() of a non-negative integer.
RECURSIVE NatDigits(_)
NatDigits(n) == IF n < 10 THEN <<DigitChar(n)>> ELSE NatDigits(n \div 10) \o <<DigitChar(n % 10)>>

\* The digits of the fraction n/d (n < d) when it has a finite decimal expansion.
RECURSIVE FractionDigits(_, _)
FractionDigits(n, d) ==
    IF n = 0 THEN << >>
    ELSE <<DigitChar((10 * n) \div d)>> \o FractionDigits((10 * n) % d, d)

\* The denominator has no prime factor other than 2 and 5.
RECURSIVE Terminates(_)
Terminates(d) ==
    IF d = 1 THEN TRUE
    ELSE IF d % 2 = 0 THEN Terminates(d \div 2)
    ELSE IF d % 5 = 0 THEN Terminates(d \div 5)
    ELSE FALSE

\* f"{result}": an int in decimal digits, a float with its point and at least
\* one digit after it ("repr" stands for the digits of a float that has no
\* finite decimal expansion).
FormatResult(v) ==
    LET sign == IF v.num < 0 THEN <<"-">> ELSE << >>
        whole == NatDigits(Abs(v.num) \div v.den)
        rest == Abs(v.num) % v.den
    IN  IF ~v.float THEN sign \o whole
        ELSE IF ~Terminates(v.den) THEN <<"repr">>
        ELSE sign \o whole \o <<".">>
             \o (IF rest = 0 THEN <<"0">> ELSE FractionDigits(rest, v.den))

(***************************************************************************)
(* The skill matcher: _check_skills and the skill handlers.  A handler     *)
(* yields the set of results it can return (the outcome of an external     *)
(* action or of a random pick is a choice).                                *)
(***************************************************************************)
TimeWords == { <<"vremya">>, <<"kotoryy", " ", "chas">>, <<"skolko", " ", "vremeni">>,
               <<"data">>, <<"segodnya", " ", "chislo">> }
WeatherWords == { <<"pogoda">>, <<"temperatura">>, <<"gradus">>, <<"dozhd">>, <<"solntse">> }
SystemWords == { <<"otkroy">>, <<"zapusti">>, <<"vyklyuchi">>, <<"perezagruzi">>, <<"zakroy">> }
\* "poishchi" holds "ishchi", a keyword that _skill_web strips.
WebWords == { <<"naydi">>, <<"po", "ishchi">>, <<"gugl">>, <<"brauzer">>, <<"yutub">> }
CalculationKeywords ==
    << <<"poschitay">>, <<"skolko", " ", "budet">>, <<"kalkulyator">>, <<"vychisli">> >>
CalculationWords == Range(CalculationKeywords)
EntertainmentWords == { <<"shutka">>, <<"poshuti">>, <<"anekdot">>, <<"muzyka">>, <<"film">> }
NoteWords == { <<"zapomni">>, <<"zapishi">>, <<"zametka">>, <<"zapis">> }
ReminderWords == { <<"napomni">>, <<"napominanie">>, <<"napomnit">> }
ClearWords == { <<"ochisti", " ", "istoriyu">>, <<"ochistit", " ", "chat">>,
                <<"novaya", " ", "sessiya">> }

\* Mutant of _skill_time: the result lets the model continue.
SkillTimeContinues(text) ==
    { SkillResult(TRUE,
                  IF Contains(lower(text), <<"vremya">>) THEN <<"seychas", "%H:%M:%S">>
                  ELSE IF Contains(lower(text), <<"data">>)
                  THEN <<"segodnya", "%d %B %Y", "weekday">>
                  ELSE <<"seychas", "%H:%M, %d.%m.%Y">>,
                  TRUE) }

_skill_time(text) ==
    { SkillResult(TRUE,
                  IF Contains(lower(text), <<"vremya">>) THEN <<"seychas", "%H:%M:%S">>
                  ELSE IF Contains(lower(text), <<"data">>)
                  THEN <<"segodnya", "%d %B %Y", "weekday">>
                  ELSE <<"seychas", "%H:%M, %d.%m.%Y">>,
                  FALSE) }

\* The request to the weather service may fail; the handler catches it.
_skill_weather(text) ==
    { SkillResult(TRUE, <<"weather">>, TRUE), SkillResult(FALSE, << >>, TRUE) }

\* webbrowser.open is called outside any try block: its failure leaves the handler.
_skill_system(text) ==
    LET text_lower == lower(text)
    IN  IF Has(text_lower, { <<"brauzer">>, <<"internet">> })
        THEN { Opened(SkillResult(TRUE, <<"ya", "otkryl brauzer">>, TRUE),
                      <<"https://www.google.com">>),
               Opened(SkillRaises, <<"https://www.google.com">>) }
        ELSE IF Contains(text_lower, <<"kalkulyator">>)
        THEN { SkillResult(TRUE, <<"ya", "zapustil kalkulyator">>, TRUE) }
        ELSE IF Has(text_lower, { <<"bloknot">>, <<"notepad">> })
        THEN { SkillResult(TRUE, <<"ya", "otkryl bloknot">>, TRUE) }
        ELSE IF Contains(text_lower, <<"papka">>) /\ Contains(text_lower, <<"proekt">>)
        THEN { SkillResult(TRUE, <<"ya", "otkryl papku proekta">>, TRUE) }
        ELSE IF Contains(text_lower, <<"vyklyuchi">>) /\ Contains(text_lower, <<"kompyuter">>)
        THEN { SkillResult(TRUE, <<"ya", "vyklyuchenie trebuet podtverzhdeniya">>, TRUE) }
        ELSE { SkillResult(FALSE, << >>, TRUE) }

WebKeywords ==
    << <<"naydi">>, <<"po", "ishchi">>, <<"ishchi">>, <<"nayti">>, <<"gugl">>, <<"brauzer">>,
       <<"yutub">>, <<"youtube">> >>

\* Mutant of VideoWords: no keyword selects the video platform.
VideoWordsNone == {}

VideoWords == { <<"yutub">>, <<"youtube">> }

\* webbrowser.open(url) is inside the try block: its failure is caught.
_skill_web(text) ==
    LET text_lower == lower(text)
        query == StripSpaces(Strip(text_lower, WebKeywords))
        video == Has(text_lower, VideoWords)
        url == IF video THEN <<"https://www.youtube.com/results?search_query=">> \o query
               ELSE <<"https://www.google.com/search?q=">> \o query
        action == IF video THEN "poisk na YouTube" ELSE "poisk v Google"
    IN  IF query = << >>
        THEN { SkillResult(TRUE, <<"chto imenno vy khotite nayti?">>, FALSE) }
        ELSE { Opened(SkillResult(TRUE, <<"ishchu">> \o query \o <<action>>, TRUE), url),
               Opened(SkillResult(FALSE, << >>, TRUE), url) }

\* expression.replace("x", "*").replace("х", "*").replace(",", "."): "x" is
\* the Latin letter and "kha" the Cyrillic one.
Normalise(expression) ==
    [i \in 1 .. Len(expression) |->
        IF expression[i] \in {"x", "kha"} THEN "*"
        ELSE IF expression[i] = "," THEN "."
        ELSE expression[i]]

\* Mutant of allowed: the caret passes the test of the characters.
AllowedWithCaret == Digits \cup {"+", "-", "*", "/", ".", "(", ")", " ", "^"}

allowed == Digits \cup {"+", "-", "*", "/", ".", "(", ")", " "}

OnlySimpleExpressions == <<"tolko prostye vyrazheniya s tsiframi i operatorami + - * /">>
DivisionByZero == <<"na nol delit nelzya!">>

\* Mutant of _skill_calculation: ZeroDivisionError is handled as any other exception.
SkillCalculationZeroFails(text) ==
    LET residual == StripSpaces(Strip(lower(text), CalculationKeywords))
        expression == Normalise(residual)
        result == PyEval(expression)
        line == expression \o <<" ", "=", " ">> \o FormatResult(result.value)
    IN  IF residual = << >>
        THEN { SkillResult(TRUE, <<"kakoe vyrazhenie vy khotite vychislit?">>, FALSE) }
        ELSE IF ~(\A i \in 1 .. Len(expression) : expression[i] \in allowed)
        THEN { SkillResult(TRUE, OnlySimpleExpressions, FALSE) }
        ELSE CASE result.outcome = "value" -> { SkillResult(TRUE, line, TRUE) }
               [] result.outcome = "zero_division" -> { SkillResult(FALSE, << >>, TRUE) }
               [] result.outcome = "error" -> { SkillResult(FALSE, << >>, TRUE) }
               [] OTHER -> { SkillResult(TRUE, expression \o <<" ", "=", " ", "repr">>, TRUE),
                             SkillResult(TRUE, DivisionByZero, FALSE),
                             SkillResult(FALSE, << >>, TRUE) }

_skill_calculation(text) ==
    LET residual == StripSpaces(Strip(lower(text), CalculationKeywords))
        expression == Normalise(residual)
        result == PyEval(expression)
        line == expression \o <<" ", "=", " ">> \o FormatResult(result.value)
    IN  IF residual = << >>
        THEN { SkillResult(TRUE, <<"kakoe vyrazhenie vy khotite vychislit?">>, FALSE) }
        ELSE IF ~(\A i \in 1 .. Len(expression) : expression[i] \in allowed)
        THEN { SkillResult(TRUE, OnlySimpleExpressions, FALSE) }
        ELSE CASE result.outcome = "value" -> { SkillResult(TRUE, line, TRUE) }
               [] result.outcome = "zero_division" -> { SkillResult(TRUE, DivisionByZero, FALSE) }
               [] result.outcome = "error" -> { SkillResult(FALSE, << >>, TRUE) }
               [] OTHER -> { SkillResult(TRUE, expression \o <<" ", "=", " ", "repr">>, TRUE),
                             SkillResult(TRUE, DivisionByZero, FALSE),
                             SkillResult(FALSE, << >>, TRUE) }

\* webbrowser.open is called outside any try block: its failure leaves the handler.
_skill_entertainment(text) ==
    LET text_lower == lower(text)
    IN  IF Has(text_lower, { <<"shutka">>, <<"poshuti">>, <<"anekdot">> })
        THEN { SkillResult(TRUE, <<"joke">>, TRUE) }
        ELSE IF Contains(text_lower, <<"muzyka">>)
        THEN { Opened(SkillResult(TRUE, <<"otkryvayu YouTube">>, TRUE),
                      <<"https://www.youtube.com">>),
               Opened(SkillRaises, <<"https://www.youtube.com">>) }
        ELSE IF Contains(text_lower, <<"film">>)
        THEN { Opened(SkillResult(TRUE, <<"otkryvayu Kinopoisk">>, TRUE),
                      <<"https://www.kinopoisk.ru">>),
               Opened(SkillRaises, <<"https://www.kinopoisk.ru">>) }
        ELSE { SkillResult(FALSE, << >>, TRUE) }

_skill_note(text) == { SkillResult(TRUE, <<"ya zapomnil eto">>, TRUE) }

_skill_reminder(text) == { SkillResult(TRUE, <<"napominanie ustanovleno">>, TRUE) }

\* Mutant of _skill_clear_history: the result lets the model continue.
SkillClearHistoryContinues(text) ==
    { SkillResult(TRUE, <<"istoriya dialoga ochishchena">>, TRUE) }

\* The handler also clears self.conversation_history: see ClearsHistory.
_skill_clear_history(text) == { SkillResult(TRUE, <<"istoriya dialoga ochishchena">>, FALSE) }

\* Mutant of SkillCategory: the weather keywords are tested before the time keywords.
SkillCategoryWeatherFirst(text) ==
    LET text_lower == lower(text)
    IN  IF Has(text_lower, WeatherWords) THEN "weather"
        ELSE IF Has(text_lower, TimeWords) THEN "time"
        ELSE IF Has(text_lower, SystemWords) THEN "system"
        ELSE IF Has(text_lower, WebWords) THEN "web"
        ELSE IF Has(text_lower, CalculationWords) THEN "calculation"
        ELSE IF Has(text_lower, EntertainmentWords) THEN "entertainment"
        ELSE IF Has(text_lower, NoteWords) THEN "note"
        ELSE IF Has(text_lower, ReminderWords) THEN "reminder"
        ELSE IF Has(text_lower, ClearWords) THEN "clear_history"
        ELSE "none"

\* The if/elif chain of _check_skills: the first category with a keyword in
\* text.lower().
SkillCategory(text) ==
    LET text_lower == lower(text)
    IN  IF Has(text_lower, TimeWords) THEN "time"
        ELSE IF Has(text_lower, WeatherWords) THEN "weather"
        ELSE IF Has(text_lower, SystemWords) THEN "system"
        ELSE IF Has(text_lower, WebWords) THEN "web"
        ELSE IF Has(text_lower, CalculationWords) THEN "calculation"
        ELSE IF Has(text_lower, EntertainmentWords) THEN "entertainment"
        ELSE IF Has(text_lower, NoteWords) THEN "note"
        ELSE IF Has(text_lower, ReminderWords) THEN "reminder"
        ELSE IF Has(text_lower, ClearWords) THEN "clear_history"
        ELSE "none"

_check_skills(text) ==
    LET c == SkillCategory(text)
    IN  CASE c = "time" -> _skill_time(text)
          [] c = "weather" -> _skill_weather(text)
          [] c = "system" -> _skill_system(text)
          [] c = "web" -> _skill_web(text)
          [] c = "calculation" -> _skill_calculation(text)
          [] c = "entertainment" -> _skill_entertainment(text)
          [] c = "note" -> _skill_note(text)
          [] c = "reminder" -> _skill_reminder(text)
          [] c = "clear_history" -> _skill_clear_history(text)
          [] OTHER -> { SkillResult(FALSE, << >>, TRUE) }

\* Mutant of ClearsHistory: the handler leaves the history as it is.
ClearsHistoryNever(text) == FALSE

\* The handler that _check_skills calls is _skill_clear_history, which runs
\* self.conversation_history.clear().
ClearsHistory(text) == SkillCategory(text) = "clear_history"

(***************************************************************************)
(* The decision table of _process_command: the reply and its source.       *)
(***************************************************************************)
\* The reply of MistralClient.generate_response: some text, never an exception.
AiResponse == <<"ai_response">>

GreetingWords == { <<"privet">>, <<"zdravstvuy">>, <<"khay">>, <<"hello">> }
HowAreYouWords == { <<"kak", " ", "dela">>, <<"kak", " ", "ty">>, <<"kak", " ", "zhizn">> }
ThanksWords == { <<"spasibo">>, <<"blagodaryu">> }
FarewellWords == { <<"poka">>, <<"do", " ", "svidaniya">>, <<"proshchay">> }
HelpWords == { <<"chto", " ", "ty", " ", "umeesh">>, <<"pomoshch">> }

\* The if/elif chain of _get_fallback_response: the strings random.choice can
\* return for the first category with a keyword in the text.
_get_fallback_response(text) ==
    IF Has(lower(text), GreetingWords)
    THEN { <<"privet, user_name!">>, <<"zdravstvuyte! chem mogu pomoch?">>,
           <<"privetstvuyu! gotov pomoch vam!">> }
    ELSE IF Has(lower(text), HowAreYouWords)
    THEN { <<"u menya vsyo otlichno">>, <<"prekrasno!">>, <<"vsyo khorosho">> }
    ELSE IF Has(lower(text), ThanksWords)
    THEN { <<"vsegda pozhaluysta!">>, <<"rad byl pomoch!">>, <<"obrashchaytes eshchyo!">> }
    ELSE IF Has(lower(text), FarewellWords)
    THEN { <<"do svidaniya! vozvrashchaytes.">>, <<"poka! budu rad pomoch snova.">>,
           <<"vsego khoroshego!">> }
    ELSE IF Has(lower(text), HelpWords)
    THEN { <<"ya mogu: ...">> }
    ELSE { <<"izvinite, ya ne sovsem ponyal">>, <<"poka ya uchus ponimat takie zaprosy">>,
           <<"interesnyy vopros!">>, <<"mne nuzhen dostup k AI modeli">> }

\* One reply of the decision table: the text, metadata["source"] and the number
\* of generate_response calls made on the way.
Reply(response, source, calls) == [response |-> response, source |-> source, calls |-> calls]

\* Mutant of ComposeReply: the model is asked before should_continue is looked at.
ComposeReplyAsksFirst(text, skill_result, model_available) ==
    IF model_available
    THEN IF skill_result.success
         THEN { Reply(skill_result.response \o <<"\n\n">> \o AiResponse, "hybrid", 1) }
         ELSE { Reply(AiResponse, "ai", 1) }
    ELSE IF skill_result.success
         THEN { Reply(skill_result.response, "skill", 0) }
         ELSE { Reply(f, "fallback", 0) : f \in _get_fallback_response(text) }

\* Mutant of ComposeReply: the hybrid reply is joined without the separator.
ComposeReplyNoSeparator(text, skill_result, model_available) ==
    IF skill_result.success /\ ~skill_result.should_continue
    THEN { Reply(skill_result.response, "skill", 0) }
    ELSE IF model_available
    THEN IF skill_result.success
         THEN { Reply(skill_result.response \o AiResponse, "hybrid", 1) }
         ELSE { Reply(AiResponse, "ai", 1) }
    ELSE IF skill_result.success
         THEN { Reply(skill_result.response, "skill", 0) }
         ELSE { Reply(f, "fallback", 0) : f \in _get_fallback_response(text) }

\* Mutant of ComposeReply: a failed skill asks the model although it is unavailable.
ComposeReplyAsksUnavailable(text, skill_result, model_available) ==
    IF skill_result.success /\ ~skill_result.should_continue
    THEN { Reply(skill_result.response, "skill", 0) }
    ELSE IF model_available \/ ~skill_result.success
    THEN IF skill_result.success
         THEN { Reply(skill_result.response \o <<"\n\n">> \o AiResponse, "hybrid", 1) }
         ELSE { Reply(AiResponse, "ai", 1) }
    ELSE { Reply(skill_result.response, "skill", 0) }

\* The replies the decision table can compose.
ComposeReply(text, skill_result, model_available) ==
    IF skill_result.success /\ ~skill_result.should_continue
    THEN { Reply(skill_result.response, "skill", 0) }
    ELSE IF model_available
    THEN IF skill_result.success
         THEN { Reply(skill_result.response \o <<"\n\n">> \o AiResponse, "hybrid", 1) }
         ELSE { Reply(AiResponse, "ai", 1) }
    ELSE IF skill_result.success
         THEN { Reply(skill_result.response, "skill", 0) }
         ELSE { Reply(f, "fallback", 0) : f \in _get_fallback_response(text) }

\* conversation_history[-n:] for a history longer than n.
LastN(h, n) == IF Len(h) > n THEN SubSeq(h, Len(h) - n + 1, Len(h)) ELSE h

\* Mutant of Truncate: the slice [:max_history], which keeps the oldest messages.
TruncateKeepsOldest(h) == IF Len(h) > max_history THEN SubSeq(h, 1, max_history) ELSE h

\* if len(history) > max_history: history = history[-max_history:]
Truncate(h) == IF Len(h) > max_history THEN LastN(h, max_history) ELSE h

(***************************************************************************)
(* The model client MistralClient (src/mistral_client.py).  Its texts are  *)
(* sequences of characters (one-character tokens), so that the length      *)
(* test of the credential and the 100-character prefix of the cache key    *)
(* are computed.  generate_response is called by the command-processing    *)
(* worker, one call at a time.                                             *)
(***************************************************************************)
\* Capacity of the response cache.  The code sets self.cache_size = 100
\* (src/mistral_client.py:42); the model scales it down so that the eviction
\* is reached after three stored replies.
cache_size == 2

\* Number of generate_response() calls in one behaviour.
MaxCalls == 4

\* Length of the content prefix in the cache key.  The code takes
\* msg['content'][:100] (src/mistral_client.py:220); the model scales the
\* length down and keeps two messages that differ only after the prefix.
KeyPrefix == 3

\* history[-10:] in _prepare_messages.
HistoryWindow == 10

\* len(api_key.strip()) < 10 in __init__.
MinKeyLength == 10

Chars(n, c) == [i \in 1 .. n |-> c]

\* s[:n]
Prefix(s, n) == IF Len(s) > n THEN SubSeq(s, 1, n) ELSE s

placeholder_keys ==
    { <<"y","o","u","r","_","o","p","e","n","r","o","u","t","e","r","_","a","p","i","_","k","e","y">>,
      <<"s","k","-","o","r","-","v","1","-",".",".",".">>,
      <<"s","k","-","o","r","-","v","1","-">>,
      << >> }

\* The credentials the model constructs a client with: the empty string, the
\* placeholders (one of them between blanks), blanks only, keys of 3 and of 9
\* characters, a key of 10 characters between blanks and a key of 12 characters.
Keys ==
    placeholder_keys \cup
    { <<" ">> \o <<"s","k","-","o","r","-","v","1","-",".",".",".">> \o <<" ">>,
      <<" ", " ", " ">>,
      <<"a","b","c">>,
      Chars(9, "k"),
      <<" ">> \o Chars(10, "k") \o <<" ", " ">>,
      <<"s","k","-","o","r","-","v","1","-","a","b","c">> }

\* Mutant of KeyAvailable: the length of the credential is not tested.
KeyAvailableNoLength(key) ==
    ~(key = << >> \/ StripSpaces(key) \in placeholder_keys)

\* __init__: self.available for the credential.
KeyAvailable(key) ==
    ~(key = << >> \/ StripSpaces(key) \in placeholder_keys
                  \/ Len(StripSpaces(key)) < MinKeyLength)

\* The fixed messages generate_response returns.
UnavailableMessage == <<"AI servis vremenno nedostupen">>
NoAnswerMessage == <<"ne udalos poluchit otvet ot AI modeli">>
FixedMessage ==
    [no_choices |-> NoAnswerMessage,
     unauthorized |-> <<"nevernyy API klyuch">>,
     rate_limited |-> <<"limit zaprosov prevyshen">>,
     status |-> <<"oshibka servisa AI (kod)">>,
     timeout |-> <<"taymaut pri obrashchenii k AI servisu">>,
     connection |-> <<"net soedineniya">>,
     exception |-> <<"vnutrennyaya oshibka">>]

\* The outcomes of the HTTP exchange other than a 200 response with a choice:
\* 200 without choices, 401, 429, another status, requests Timeout,
\* requests ConnectionError, any other exception.
FailedOutcomes ==
    {"no_choices", "unauthorized", "rate_limited", "status", "timeout", "connection",
     "exception"}

\* The outcomes after which self.stats["errors"] += 1 is executed.
ErrorOutcomes == {"status", "timeout", "connection", "exception"}

\* What the model can answer, and the total_tokens its usage reports.
ModelContents == { <<"r", "1">>, <<"r", "2">> }
TokenCounts == {3}

\* _create_system_prompt: a preamble of more than KeyPrefix characters, then the context.
_create_system_prompt(context) == Chars(KeyPrefix + 1, "p") \o context \o <<"!">>

\* Mutant of _prepare_messages: the first HistoryWindow messages of the history.
PrepareMessagesOldest(user_message, history, context) ==
    << ConversationMessage("system", _create_system_prompt(context)) >>
    \o Prefix(history, HistoryWindow)
    \o << ConversationMessage("user", user_message) >>

\* _prepare_messages: the system message, the last HistoryWindow messages of
\* the history, the user message.
_prepare_messages(user_message, history, context) ==
    << ConversationMessage("system", _create_system_prompt(context)) >>
    \o LastN(history, HistoryWindow)
    \o << ConversationMessage("user", user_message) >>

\* f"{msg['role']}:{msg['content'][:100]}"
KeyPart(msg) == <<msg.role, ":">> \o Prefix(msg.content, KeyPrefix)

\* Mutant of _create_cache_key: the key is made of the last three messages.
CacheKeyOfThree(messages) ==
    LET tail == LastN(messages, 3)
    IN  IF Len(tail) = 3
        THEN KeyPart(tail[1]) \o <<"|">> \o KeyPart(tail[2]) \o <<"|">> \o KeyPart(tail[3])
        ELSE KeyPart(tail[1]) \o <<"|">> \o KeyPart(tail[2])

\* _create_cache_key: "|".join of the key parts of messages[-2:].
_create_cache_key(messages) ==
    LET tail == LastN(messages, 2)
    IN  IF Len(tail) = 2 THEN KeyPart(tail[1]) \o <<"|">> \o KeyPart(tail[2])
        ELSE IF Len(tail) = 1 THEN KeyPart(tail[1])
        ELSE << >>

\* The dict response_cache is the sequence of its items in insertion order.
CacheKeys(cache) == {cache[i].key : i \in 1 .. Len(cache)}
InCache(cache, key) == key \in CacheKeys(cache)
CacheGet(cache, key) == cache[CHOOSE i \in 1 .. Len(cache) : cache[i].key = key].response

\* dict[key] = response: in place for a known key, at the end for a new one.
CachePut(cache, key, response) ==
    IF InCache(cache, key)
    THEN [i \in 1 .. Len(cache) |->
             IF cache[i].key = key THEN [key |-> key, response |-> response] ELSE cache[i]]
    ELSE Append(cache, [key |-> key, response |-> response])

\* Mutant of _add_to_cache: nothing is evicted.
AddToCacheNoEviction(cache, key, response) == CachePut(cache, key, response)

\* Mutant of _add_to_cache: the newest entry is evicted.
AddToCacheEvictsNewest(cache, key, response) ==
    CachePut(IF Len(cache) >= cache_size THEN SubSeq(cache, 1, Len(cache) - 1) ELSE cache,
             key, response)

\* _add_to_cache: at capacity del cache[next(iter(cache))], then the assignment.
_add_to_cache(cache, key, response) ==
    CachePut(IF Len(cache) >= cache_size THEN Tail(cache) ELSE cache, key, response)

\* metadata: the keys it has, and the values of "cached" and of the token usage.
Metadata(keys, cached, tokens) == [keys |-> keys, cached |-> cached, tokens |-> tokens]
EmptyMetadata == Metadata({}, FALSE, 0)

\* Mutant of CountRequest: the request is not counted.
CountRequestNever(s) == s

\* self.stats["requests"] += 1
CountRequest(s) == [s EXCEPT !.requests = @ + 1]

\* Mutant of CountError: nothing is counted.
CountErrorNever(s) == s

\* self.stats["errors"] += 1
CountError(s) == [s EXCEPT !.errors = @ + 1]

\* self.stats["tokens_used"] += usage.get("total_tokens", 0)
CountTokens(s, total_tokens) == [s EXCEPT !.tokens_used = @ + total_tokens]

\* The last two assembled messages as the cache key sees them: the role and
\* the first KeyPrefix characters of the content of each.
KeyTail(messages) ==
    LET tail == LastN(messages, 2)
    IN  [i \in 1 .. Len(tail) |-> <<tail[i].role, Prefix(tail[i].content, KeyPrefix)>>]

\* Mutant of CacheHit: the cache is never consulted.
CacheHitNever(cache, key) == FALSE

\* `if cache_key in self.response_cache`
CacheHit(cache, key) == InCache(cache, key)

\* Mutant of StoresReply: every outcome of the exchange is stored.
StoresReplyAlways(outcome) == TRUE

\* The reply is stored only in the branch of status 200 with a choice.
StoresReply(outcome) == outcome = "ok"

\* Mutant of Caught: the last except clause catches the exceptions of requests only.
CaughtRequestsOnly(outcome) == outcome # "exception"

\* The except clauses of generate_response (Timeout, ConnectionError, Exception)
\* catch every exception raised in the try block, whatever the outcome.
Caught(outcome) == TRUE

\* What the HTTP exchange can come to: a 200 response with a choice (its
\* content and its token usage), or one of the failed outcomes.
Exchanges ==
    { [outcome |-> "ok", content |-> c, total_tokens |-> t] :
          c \in ModelContents, t \in TokenCounts }
    \cup { [outcome |-> o, content |-> << >>, total_tokens |-> 0] : o \in FailedOutcomes }

NoPrompt == [user_message |-> << >>, history |-> << >>, context |-> << >>, messages |-> << >>]

NoKey == << >>
NoCall ==
    [n |-> 0, key |-> NoKey, tail |-> << >>, outcome |-> "none", response |-> << >>,
     metadata |-> EmptyMetadata, network |-> FALSE]

\* The record of one call.
Call(key, tail, outcome, response, metadata, network) ==
    [n |-> last_call.n + 1, key |-> key, tail |-> tail, outcome |-> outcome,
     response |-> response, metadata |-> metadata, network |-> network]

\* The user messages, histories and contexts generate_response is called with.
\* Two of the messages have the same first KeyPrefix characters.
Messages ==
    { <<"a">>, <<"b">>, Chars(KeyPrefix, "x") \o <<"1">>, Chars(KeyPrefix, "x") \o <<"2">> }
Histories ==
    { << >>, << ConversationMessage("user", <<"a">>) >>,
      << ConversationMessage("assistant", <<"b">>), ConversationMessage("user", <<"a">>) >> }
Contexts == { <<"t">> }

\* A history of n messages, user and assistant in turn, the i-th of i characters.
History(n) ==
    [i \in 1 .. n |->
        ConversationMessage(IF i % 2 = 1 THEN "user" ELSE "assistant", Chars(i, "h"))]

\* The histories and contexts _prepare_messages is called with on its own:
\* shorter than, as long as and longer than HistoryWindow.
PromptHistories ==
    { History(n) : n \in {0, 1, 2, HistoryWindow - 1, HistoryWindow,
                          HistoryWindow + 1, HistoryWindow + 2, 2 * HistoryWindow} }
    \cup Histories
PromptContexts == { << >>, <<"t">>, <<"t", "l", "u">> }

(***************************************************************************)
(* The state machine.                                                      *)
(***************************************************************************)
\* Calls of generate_response one thread makes in one behaviour of CallersSpec.
CallsEach == 2

\* A thread that is not inside generate_response: n counts its returned calls.
NoFrame == [at |-> "out", n |-> 0, loaded |-> 0, key |-> NoKey, content |-> << >>,
            total_tokens |-> 0, oldest_key |-> NoKey]

\* The return of generate_response: the locals are gone.
Returned(f) == [NoFrame EXCEPT !.n = f.n + 1]

\* del cache[key]
CacheDel(cache, key) == SelectSeq(cache, LAMBDA item : item.key # key)

\* MistralClient.__init__ for the credential api_key.
ClientConstructed ==
    /\ client_available = KeyAvailable(api_key)
    /\ response_cache = << >>
    /\ stats = [requests |-> 0, tokens_used |-> 0, errors |-> 0]
    /\ last_call = NoCall
    /\ frame = [w \in Workers |-> NoFrame]
    /\ prompt = NoPrompt

\* default_config of _load_config, of which the model keeps
\* assistant.max_history (100 in the code, scaled as max_history is).
default_config == [assistant |-> [max_history |-> max_history]]

\* _deep_update(default_config, user_config): a value of the settings file
\* replaces the default one.
_load_config(user_config) ==
    [assistant |-> [max_history |-> IF "max_history" \in DOMAIN user_config.assistant
                                    THEN user_config.assistant.max_history
                                    ELSE default_config.assistant.max_history]]

\* The settings files: none of assistant.max_history, or a limit below, at or
\* above the default.
UserConfigs ==
    { [assistant |-> << >>] }
    \cup { [assistant |-> [max_history |-> n]] :
              n \in {max_history - 1, max_history, max_history + 1} }

\* VoiceAIAssistant.__init__, after the client was constructed.
AssistantConstructed ==
    /\ config = _load_config([assistant |-> << >>])
    /\ state = "idle"
    /\ is_running = FALSE
    /\ command_queue = << >>
    /\ conversation_history = << >>
    /\ processing_thread = 0
    /\ available = client_available
    /\ pc = [w \in Workers |-> "unborn"]
    /\ level = [w \in Workers |-> 0]
    /\ cur = [w \in Workers |-> NoCommand]
    /\ reply = [w \in Workers |-> NoReply]
    /\ log = [w \in Workers |-> << >>]
    /\ timers = {}
    /\ ui = "ready"
    /\ submitted = 0
    /\ unnotified = 0

\* The assistant is constructed with the placeholder credential of the default
\* configuration, or with a credential the client accepts.
Init ==
    /\ api_key \in {<<"y","o","u","r","_","o","p","e","n","r","o","u","t","e","r","_","a","p","i","_","k","e","y">>,
                     Chars(MinKeyLength, "k")}
    /\ ClientConstructed
    /\ AssistantConstructed

\* Mutant of StateChangeCalls: the callback is called only when the value changes.
StateChangeCallsOnChange(old_state, new_state) == IF old_state = new_state THEN 0 ELSE 1

\* Number of on_state_change calls one _change_state makes.
StateChangeCalls(old_state, new_state) == 1

\* Mutant of _change_state: a worker that takes up a command announces it as
\* listening.
ChangeStateListening(new_state) == IF new_state = "processing" THEN "listening" ELSE new_state

\* _change_state: self.state after the assignment.
_change_state(new_state) == new_state

\* unnotified after one _change_state.
Unnotified(new_state) == (unnotified + 1) - StateChangeCalls(state, new_state)

\* The thread is started and has not ended ("exited": the loop saw is_running
\* false; "dead": an exception left _processing_loop).
Alive(w) == pc[w] \notin {"unborn", "exited", "dead"}

\* The worker holds a dequeued command whose handling has not ended.
InFlight(w) == Alive(w) /\ pc[w] \notin {"loop", "get", "crashed"}

\* The worker is inside _process_command (its try body or its except handler).
Processing(w) == InFlight(w) /\ level[w] <= 1

\* The handling of the worker's last command has ended (and the next has not begun).
Ended(w) == cur[w] # NoCommand /\ pc[w] \in {"loop", "crashed"}

\* Where an exception raised at handler level l is caught: by the except of
\* _process_command, then by the except of _processing_loop, then by nobody.
\* Mutant of CatchPc: the except clause of _process_command swallows the exception.
CatchPcSwallows(l) == IF l = 0 THEN "loop" ELSE IF l < 2 THEN "handle_error" ELSE "crashed"

CatchPc(l) == IF l < 2 THEN "handle_error" ELSE "crashed"
CatchLevel(l) == IF l < 2 THEN l + 1 ELSE l

\* What the log keeps of a command once an exception has been raised in it: the
\* announcement of the reply and the error notifications.
ErrorEvents == {"update:assistant", "state:error", "on_error", "timer"}

Goto(w, p) == pc' = [pc EXCEPT ![w] = p]

\* The step goes on to p, having done `events`.
Continue(w, p, events) ==
    /\ pc' = [pc EXCEPT ![w] = p]
    /\ level' = level
    /\ log' = [log EXCEPT ![w] = IF level[w] = 0 THEN log[w] \o events
                                 ELSE log[w] \o SelectSeq(events, LAMBDA e : e \in ErrorEvents)]

\* The step raises, having done `events`.
Raise(w, events) ==
    /\ pc' = [pc EXCEPT ![w] = CatchPc(level[w])]
    /\ level' = [level EXCEPT ![w] = CatchLevel(level[w])]
    /\ log' = [log EXCEPT ![w] = SelectSeq(log[w] \o events, LAMBDA e : e \in ErrorEvents)]

(* ---- callers: send_text_command, start, stop, clear_history ---- *)

send_text_command(text) ==
    /\ submitted < MaxCommands
    /\ command_queue' = Append(command_queue, text)
    /\ submitted' = submitted + 1
    /\ UNCHANGED << state, is_running, conversation_history, processing_thread, available,
                    pc, level, cur, reply, log, timers, ui, unnotified,
                    clientVars, config >>

\* The callers (the user interface) call start(), stop() and clear_history() on
\* the main thread, where the notification callbacks return normally; on the
\* worker threads the callbacks may raise.

\* Mutant of StartSpawns: start() does not look at is_running.
StartSpawnsAlways(running) == TRUE

\* `if self.is_running: return` at the head of start().
StartSpawns(running) == ~running

\* start(): nothing when already running; else is_running, the idle
\* notification and the new worker thread.
start ==
    /\ ui = "ready"
    /\ \/ /\ ~StartSpawns(is_running)
          /\ UNCHANGED vars
       \/ /\ StartSpawns(is_running)
          /\ processing_thread < MaxWorkers
          /\ is_running' = TRUE
          /\ state' = _change_state("idle")
          /\ unnotified' = Unnotified("idle")
          /\ processing_thread' = processing_thread + 1
          /\ pc' = [pc EXCEPT ![processing_thread + 1] = "loop"]
          /\ UNCHANGED << command_queue, conversation_history, available, level, cur,
                          reply, log, timers, ui, submitted,
                    clientVars, config >>

\* stop() up to the join: is_running, the idle notification, then join(timeout=2)
\* when the last worker is alive.
stop ==
    /\ ui = "ready"
    /\ is_running' = FALSE
    /\ state' = _change_state("idle")
    /\ unnotified' = Unnotified("idle")
    /\ ui' = IF processing_thread # 0 /\ Alive(processing_thread)
             THEN "joining" ELSE "ready"
    /\ UNCHANGED << command_queue, conversation_history, processing_thread, available,
                    pc, level, cur, reply, log, timers, submitted,
                    clientVars, config >>

\* join(timeout=2) returns: the worker has ended, or the two seconds have passed.
\* An idle worker polls the queue every 0.1 s and sees is_running, so the wait
\* outlasts the timeout only while the worker is busy with a command.
join_returns ==
    /\ ui = "joining"
    /\ ~Alive(processing_thread) \/ InFlight(processing_thread)
    /\ ui' = "ready"
    /\ UNCHANGED << state, is_running, command_queue, conversation_history,
                    processing_thread, available, pc, level, cur, reply, log, timers,
                    submitted, unnotified,
                    clientVars, config >>

\* The public clear_history(), called by the user interface.
clear_history ==
    /\ ui = "ready"
    /\ conversation_history' = << >>
    /\ UNCHANGED << state, is_running, command_queue, processing_thread, available,
                    pc, level, cur, reply, log, timers, ui, submitted, unnotified,
                    clientVars, config >>

(* ---- the worker thread: _processing_loop and _process_command ---- *)

\* `while self.is_running`: the previous command's locals are gone.
loop_test(w) ==
    /\ pc[w] = "loop"
    /\ Goto(w, IF is_running THEN "get" ELSE "exited")
    /\ level' = [level EXCEPT ![w] = 0]
    /\ cur' = [cur EXCEPT ![w] = NoCommand]
    /\ reply' = [reply EXCEPT ![w] = NoReply]
    /\ log' = [log EXCEPT ![w] = << >>]
    /\ UNCHANGED << state, is_running, command_queue, conversation_history,
                    processing_thread, available, timers, ui, submitted, unnotified,
                    clientVars, config >>

\* command_queue.get(timeout=0.1): the oldest command, or queue.Empty and `continue`.
queue_get(w) ==
    /\ pc[w] = "get"
    /\ IF command_queue # << >>
       THEN /\ cur' = [cur EXCEPT ![w] = [id |-> (submitted - Len(command_queue)) + 1,
                                           text |-> Head(command_queue)]]
            /\ command_queue' = Tail(command_queue)
            /\ Goto(w, "change_processing")
       ELSE /\ Goto(w, "loop")
            /\ UNCHANGED << cur, command_queue >>
    /\ UNCHANGED << state, is_running, conversation_history, processing_thread, available,
                    level, reply, log, timers, ui, submitted, unnotified,
                    clientVars, config >>

\* self._change_state(AssistantState.PROCESSING); the callback may raise.
change_processing(w) ==
    /\ pc[w] = "change_processing"
    /\ state' = _change_state("processing")
    /\ unnotified' = Unnotified("processing")
    /\ \/ Continue(w, "append_user", <<"state:processing">>)
       \/ Raise(w, <<"state:processing">>)
    /\ UNCHANGED << is_running, command_queue, conversation_history, processing_thread,
                    available, cur, reply, timers, ui, submitted,
                    clientVars, config >>

\* The user message is appended and on_conversation_update is called with it.
append_user(w) ==
    /\ pc[w] = "append_user"
    /\ conversation_history' =
           Append(conversation_history, ConversationMessage("user", cur[w].text))
    /\ \/ Continue(w, "check_skills", <<"append:user", "update:user">>)
       \/ Raise(w, <<"append:user", "update:user">>)
    /\ UNCHANGED << state, is_running, command_queue, processing_thread, available,
                    cur, reply, timers, ui, submitted, unnotified,
                    clientVars, config >>

\* self.context, the user context set in __init__.
self_context == <<"user_name", "location", "interests">>

\* The messages assembled by the call generate_response(user_message=text,
\* conversation_history=self.conversation_history, context=self.context).
Asked(text, history) == _prepare_messages(text, history, self_context)

\* _check_skills and the decision table, up to the reply and its source.
check_skills(w) ==
    /\ pc[w] = "check_skills"
    /\ conversation_history' =
           IF ClearsHistory(cur[w].text) THEN << >> ELSE conversation_history
    /\ \E skill_result \in _check_skills(cur[w].text) :
          IF skill_result.raised
          THEN Raise(w, <<"check_skills">>) /\ UNCHANGED reply
          ELSE /\ \E r \in ComposeReply(cur[w].text, skill_result, available) :
                      reply' = [reply EXCEPT
                                   ![w] = [response |-> r.response, source |-> r.source,
                                           calls |-> r.calls, skill_result |-> skill_result,
                                           prompt |-> IF r.calls = 0 THEN << >>
                                                      ELSE Asked(cur[w].text,
                                                                 conversation_history)]]
               /\ Continue(w, "append_assistant", <<"check_skills">>)
    /\ UNCHANGED << state, is_running, command_queue, processing_thread, available,
                    cur, timers, ui, submitted, unnotified,
                    clientVars, config >>

\* Mutant of ReplyEvents: on_ai_response is called before on_conversation_update.
ReplyEventsMetadataFirst == <<"append:assistant", "ai_response", "update:assistant">>

\* What append_assistant does when no callback raises: the append, then
\* on_conversation_update(assistant_message), then on_ai_response(metadata).
ReplyEvents == <<"append:assistant", "update:assistant", "ai_response">>

\* The assistant message is appended; on_conversation_update and then
\* on_ai_response are called, and either may raise.
append_assistant(w) ==
    /\ pc[w] = "append_assistant"
    /\ conversation_history' =
           Append(conversation_history, ConversationMessage("assistant", reply[w].response))
    /\ \/ Continue(w, "truncate", ReplyEvents)
       \/ Raise(w, <<"append:assistant", "update:assistant">>)
       \/ Raise(w, <<"append:assistant", "update:assistant", "ai_response">>)
    /\ reply' = [reply EXCEPT ![w].prompt = << >>]
    /\ UNCHANGED << state, is_running, command_queue, processing_thread, available,
                    cur, timers, ui, submitted, unnotified,
                    clientVars, config >>

\* if len(history) > max_history: history = history[-max_history:]
truncate(w) ==
    /\ pc[w] = "truncate"
    /\ conversation_history' = Truncate(conversation_history)
    /\ Continue(w, "change_idle",
                IF Len(conversation_history) > max_history THEN <<"truncate">> ELSE << >>)
    /\ UNCHANGED << state, is_running, command_queue, processing_thread, available,
                    cur, reply, timers, ui, submitted, unnotified,
                    clientVars, config >>

\* self._change_state(AssistantState.IDLE), the last statement of the try body.
change_idle(w) ==
    /\ pc[w] = "change_idle"
    /\ state' = _change_state("idle")
    /\ unnotified' = Unnotified("idle")
    /\ \/ Continue(w, "loop", <<"state:idle">>)
       \/ Raise(w, <<"state:idle">>)
    /\ UNCHANGED << is_running, command_queue, conversation_history, processing_thread,
                    available, cur, reply, timers, ui, submitted,
                    clientVars, config >>

\* _handle_error, first statement: self._change_state(AssistantState.ERROR).
handle_error(w) ==
    /\ pc[w] = "handle_error"
    /\ state' = _change_state("error")
    /\ unnotified' = Unnotified("error")
    /\ \/ Continue(w, "notify_error", <<"state:error">>)
       \/ Raise(w, <<"state:error">>)
    /\ UNCHANGED << is_running, command_queue, conversation_history, processing_thread,
                    available, cur, reply, timers, ui, submitted,
                    clientVars, config >>

\* _handle_error, rest: self.on_error(error), then threading.Timer(2.0, ...).start().
notify_error(w) ==
    /\ pc[w] = "notify_error"
    /\ \/ /\ Continue(w, "loop", <<"on_error", "timer">>)
          /\ timers' = timers \cup {cur[w].id}
       \/ /\ Raise(w, <<"on_error">>)
          /\ UNCHANGED timers
    /\ UNCHANGED << state, is_running, command_queue, conversation_history,
                    processing_thread, available, cur, reply, ui, submitted, unnotified,
                    clientVars, config >>

\* An exception has left _processing_loop: the thread ends and its frames are gone.
thread_ends(w) ==
    /\ pc[w] = "crashed"
    /\ Goto(w, "dead")
    /\ level' = [level EXCEPT ![w] = 0]
    /\ cur' = [cur EXCEPT ![w] = NoCommand]
    /\ reply' = [reply EXCEPT ![w] = NoReply]
    /\ log' = [log EXCEPT ![w] = << >>]
    /\ UNCHANGED << state, is_running, command_queue, conversation_history,
                    processing_thread, available, timers, ui, submitted, unnotified,
                    clientVars, config >>

\* A Timer thread runs its lambda: self._change_state(AssistantState.IDLE).
timer_fires(t) ==
    /\ t \in timers
    /\ timers' = timers \ {t}
    /\ state' = _change_state("idle")
    /\ unnotified' = Unnotified("idle")
    /\ UNCHANGED << is_running, command_queue, conversation_history, processing_thread,
                    available, pc, level, cur, reply, log, ui, submitted,
                    clientVars, config >>

Worker(w) ==
    \/ loop_test(w)
    \/ queue_get(w)
    \/ change_processing(w)
    \/ append_user(w)
    \/ check_skills(w)
    \/ append_assistant(w)
    \/ truncate(w)
    \/ change_idle(w)
    \/ handle_error(w)
    \/ notify_error(w)
    \/ thread_ends(w)

Next ==
    \/ \E text \in Commands : send_text_command(text)
    \/ start
    \/ stop
    \/ join_returns
    \/ clear_history
    \/ \E w \in Workers : loop_test(w)
    \/ \E w \in Workers : queue_get(w)
    \/ \E w \in Workers : change_processing(w)
    \/ \E w \in Workers : append_user(w)
    \/ \E w \in Workers : check_skills(w)
    \/ \E w \in Workers : append_assistant(w)
    \/ \E w \in Workers : truncate(w)
    \/ \E w \in Workers : change_idle(w)
    \/ \E w \in Workers : handle_error(w)
    \/ \E w \in Workers : notify_error(w)
    \/ \E w \in Workers : thread_ends(w)
    \/ \E t \in timers : timer_fires(t)

Spec == Init /\ [][Next]_vars

\* The threads are scheduled fairly: a worker or a timer that can take a step
\* takes it, and a join that can return returns.  The callers are not obliged
\* to call anything.
FairSpec ==
    /\ Spec
    /\ \A w \in Workers : WF_vars(Worker(w))
    /\ WF_vars(\E t \in timers : timer_fires(t))
    /\ WF_vars(join_returns)

TypeOK ==
    /\ state \in AssistantState
    /\ is_running \in BOOLEAN
    /\ processing_thread \in 0 .. MaxWorkers
    /\ submitted \in 0 .. MaxCommands
    /\ ui \in {"ready", "joining"}
    /\ \A w \in Workers : level[w] \in 0 .. 2

(***************************************************************************)
(* The skills on their own: a started assistant whose worker handles one   *)
(* submitted command, with the model available or not.                     *)
(***************************************************************************)
\* The history an earlier command has left.
EarlierTurn ==
    << ConversationMessage("user", <<"privet">>),
       ConversationMessage("assistant", <<"privet, user_name!">>) >>

\* The state after __init__, start() and one send_text_command(text), with no
\* history or with the history of an earlier command.
SkillInit ==
    /\ config = _load_config([assistant |-> << >>])
    /\ api_key \in {<<"y","o","u","r","_","o","p","e","n","r","o","u","t","e","r","_","a","p","i","_","k","e","y">>,
                     Chars(MinKeyLength, "k")}
    /\ ClientConstructed
    /\ state = "idle"
    /\ is_running = TRUE
    /\ command_queue \in {<<text>> : text \in SkillTexts}
    /\ conversation_history \in {<< >>, EarlierTurn}
    /\ processing_thread = 1
    /\ available = client_available
    /\ pc = [w \in Workers |-> IF w = 1 THEN "loop" ELSE "unborn"]
    /\ level = [w \in Workers |-> 0]
    /\ cur = [w \in Workers |-> NoCommand]
    /\ reply = [w \in Workers |-> NoReply]
    /\ log = [w \in Workers |-> << >>]
    /\ timers = {}
    /\ ui = "ready"
    /\ submitted = 1
    /\ unnotified = 0

SkillNext ==
    \/ \E w \in Workers : loop_test(w)
    \/ \E w \in Workers : queue_get(w)
    \/ \E w \in Workers : change_processing(w)
    \/ \E w \in Workers : append_user(w)
    \/ \E w \in Workers : check_skills(w)
    \/ \E w \in Workers : append_assistant(w)
    \/ \E w \in Workers : truncate(w)
    \/ \E w \in Workers : change_idle(w)
    \/ \E w \in Workers : handle_error(w)
    \/ \E w \in Workers : notify_error(w)
    \/ \E w \in Workers : thread_ends(w)
    \/ \E t \in timers : timer_fires(t)

SkillSpec == SkillInit /\ [][SkillNext]_vars

(***************************************************************************)
(* The configured history limit: an assistant constructed from one of the  *)
(* settings files and started, whose worker handles two submitted          *)
(* commands (four messages, more than any of the limits).                  *)
(***************************************************************************)
\* The state after __init__(config_path), start() and two send_text_command calls.
ConfigInit ==
    /\ config \in {_load_config(user_config) : user_config \in UserConfigs}
    /\ api_key \in {<<"y","o","u","r","_","o","p","e","n","r","o","u","t","e","r","_","a","p","i","_","k","e","y">>,
                     Chars(MinKeyLength, "k")}
    /\ ClientConstructed
    /\ state = "idle"
    /\ is_running = TRUE
    /\ command_queue = << <<"zapishi">>, <<"napomni">> >>
    /\ conversation_history = << >>
    /\ processing_thread = 1
    /\ available = client_available
    /\ pc = [w \in Workers |-> IF w = 1 THEN "loop" ELSE "unborn"]
    /\ level = [w \in Workers |-> 0]
    /\ cur = [w \in Workers |-> NoCommand]
    /\ reply = [w \in Workers |-> NoReply]
    /\ log = [w \in Workers |-> << >>]
    /\ timers = {}
    /\ ui = "ready"
    /\ submitted = 2
    /\ unnotified = 0

ConfigNext ==
    \/ \E w \in Workers : loop_test(w)
    \/ \E w \in Workers : queue_get(w)
    \/ \E w \in Workers : change_processing(w)
    \/ \E w \in Workers : append_user(w)
    \/ \E w \in Workers : check_skills(w)
    \/ \E w \in Workers : append_assistant(w)
    \/ \E w \in Workers : truncate(w)
    \/ \E w \in Workers : change_idle(w)
    \/ \E w \in Workers : handle_error(w)
    \/ \E w \in Workers : notify_error(w)
    \/ \E w \in Workers : thread_ends(w)
    \/ \E t \in timers : timer_fires(t)

ConfigSpec == ConfigInit /\ [][ConfigNext]_vars

(***************************************************************************)
(* The model client on its own: a client constructed with any of the       *)
(* credentials, and a sequence of generate_response calls.                 *)
(***************************************************************************)
ClientInit ==
    /\ api_key \in Keys
    /\ ClientConstructed
    /\ AssistantConstructed

\* One generate_response call, from the availability test to the return.
generate_response(user_message, history, context) ==
    /\ last_call.n < MaxCalls
    /\ IF ~client_available
       THEN /\ last_call' = Call(NoKey, << >>, "unavailable", UnavailableMessage,
                                 EmptyMetadata, FALSE)
            /\ UNCHANGED << stats, response_cache >>
       ELSE LET messages == _prepare_messages(user_message, history, context)
                cache_key == _create_cache_key(messages)
                counted == CountRequest(stats)
            IN  IF CacheHit(response_cache, cache_key)
                THEN /\ stats' = counted
                     /\ last_call' = Call(cache_key, KeyTail(messages), "hit",
                                          CacheGet(response_cache, cache_key),
                                          Metadata({"cached"}, TRUE, 0), FALSE)
                     /\ UNCHANGED response_cache
                ELSE \E exchange \in Exchanges :
                        LET outcome == exchange.outcome
                            response == IF outcome = "ok" THEN exchange.content
                                        ELSE FixedMessage[outcome]
                            used == IF outcome = "ok"
                                    THEN CountTokens(counted, exchange.total_tokens)
                                    ELSE counted
                        IN  /\ stats' = IF outcome \in ErrorOutcomes THEN CountError(used)
                                        ELSE used
                            /\ response_cache' =
                                   IF StoresReply(outcome)
                                   THEN _add_to_cache(response_cache, cache_key, response)
                                   ELSE response_cache
                            /\ last_call' =
                                   IF Caught(outcome)
                                   THEN Call(cache_key, KeyTail(messages), outcome, response,
                                             IF outcome = "ok"
                                             THEN Metadata({"model", "tokens", "cached",
                                                            "finish_reason"},
                                                           FALSE, exchange.total_tokens)
                                             ELSE EmptyMetadata,
                                             TRUE)
                                   ELSE Call(cache_key, KeyTail(messages), "raised", << >>,
                                             EmptyMetadata, TRUE)
    /\ UNCHANGED << api_key, client_available, frame, prompt, assistantVars >>

ClientNext ==
    \E user_message \in Messages, history \in Histories, context \in Contexts :
        generate_response(user_message, history, context)

ClientSpec == ClientInit /\ [][ClientNext]_vars

ClientTypeOK ==
    /\ client_available \in BOOLEAN
    /\ stats.requests \in 0 .. MaxCalls
    /\ stats.errors \in 0 .. MaxCalls
    /\ last_call.n \in 0 .. MaxCalls

(***************************************************************************)
(* The model client under the callers the orchestrator gives it: each      *)
(* worker thread calls generate_response from _process_command, and two    *)
(* workers can be inside it at once (start() after a stop() whose join     *)
(* timed out).  The statements of generate_response that read or write     *)
(* the shared stats and response_cache are separate steps: `d[k] += 1` is  *)
(* a read of d[k] followed by a write, `if k in d: return d[k]` a test     *)
(* followed by a read, and _add_to_cache a test, next(iter(d)), del and    *)
(* an assignment.                                                          *)
(***************************************************************************)
\* The credentials and exchanges of the calls: a valid and an empty key, one
\* reply of the model and every failed outcome.  The calls are made with the
\* empty history: the messages give three cache keys, one more than the cache
\* holds.
CallerKeys == { Chars(MinKeyLength, "k"), << >> }
CallerExchanges == { e \in Exchanges : e.outcome = "ok" => e.content = <<"r", "1">> }

CallersInit ==
    /\ api_key \in CallerKeys
    /\ ClientConstructed
    /\ AssistantConstructed

\* The step of thread w from position `at` that leaves it with frame f.
Step(w, at, f) ==
    /\ frame[w].at = at
    /\ frame' = [frame EXCEPT ![w] = f]
    /\ UNCHANGED << api_key, client_available, last_call, prompt, assistantVars >>

\* The call and its availability test; messages and cache_key are locals.
call(w, user_message, history, context) ==
    /\ frame[w].n < CallsEach
    /\ Step(w, "out",
            IF ~client_available THEN Returned(frame[w])
            ELSE [frame[w] EXCEPT
                     !.at = "load_requests",
                     !.key = _create_cache_key(_prepare_messages(user_message, history,
                                                                 context))])
    /\ UNCHANGED << stats, response_cache >>

\* self.stats["requests"] += 1: the read.
load_requests(w) ==
    /\ Step(w, "load_requests",
            [frame[w] EXCEPT !.at = "store_requests", !.loaded = stats.requests])
    /\ UNCHANGED << stats, response_cache >>

\* self.stats["requests"] += 1: the write of the value read plus one.
store_requests(w) ==
    /\ Step(w, "store_requests", [frame[w] EXCEPT !.at = "test_cache", !.loaded = 0])
    /\ stats' = CountRequest([stats EXCEPT !.requests = frame[w].loaded])
    /\ UNCHANGED response_cache

\* if cache_key in self.response_cache
test_cache(w) ==
    /\ Step(w, "test_cache",
            [frame[w] EXCEPT !.at = IF CacheHit(response_cache, frame[w].key)
                                    THEN "read_cache" ELSE "post"])
    /\ UNCHANGED << stats, response_cache >>

\* return self.response_cache[cache_key], {"cached": True}; a KeyError is
\* caught by `except Exception`.
read_cache(w) ==
    /\ Step(w, "read_cache",
            IF InCache(response_cache, frame[w].key) THEN Returned(frame[w])
            ELSE [frame[w] EXCEPT !.at = "load_errors"])
    /\ UNCHANGED << stats, response_cache >>

\* requests.post and the branches on its outcome.
post(w) ==
    /\ \E exchange \in CallerExchanges :
          Step(w, "post",
               IF exchange.outcome = "ok"
               THEN [frame[w] EXCEPT !.at = "load_tokens", !.content = exchange.content,
                                     !.total_tokens = exchange.total_tokens]
               ELSE IF exchange.outcome \in ErrorOutcomes
               THEN [frame[w] EXCEPT !.at = "load_errors"]
               ELSE Returned(frame[w]))
    /\ UNCHANGED << stats, response_cache >>

\* self.stats["tokens_used"] += usage.get("total_tokens", 0): the read.
load_tokens(w) ==
    /\ Step(w, "load_tokens",
            [frame[w] EXCEPT !.at = "store_tokens", !.loaded = stats.tokens_used])
    /\ UNCHANGED << stats, response_cache >>

\* self.stats["tokens_used"] += ...: the write.
store_tokens(w) ==
    /\ Step(w, "store_tokens", [frame[w] EXCEPT !.at = "test_size", !.loaded = 0])
    /\ stats' = CountTokens([stats EXCEPT !.tokens_used = frame[w].loaded],
                            frame[w].total_tokens)
    /\ UNCHANGED response_cache

\* _add_to_cache: if len(self.response_cache) >= self.cache_size
test_size(w) ==
    /\ Step(w, "test_size",
            [frame[w] EXCEPT !.at = IF Len(response_cache) >= cache_size
                                    THEN "pick_oldest" ELSE "assign"])
    /\ UNCHANGED << stats, response_cache >>

\* oldest_key = next(iter(self.response_cache)); StopIteration on an empty dict.
pick_oldest(w) ==
    /\ Step(w, "pick_oldest",
            IF response_cache = << >> THEN [frame[w] EXCEPT !.at = "load_errors"]
            ELSE [frame[w] EXCEPT !.at = "del_oldest",
                                  !.oldest_key = Head(response_cache).key])
    /\ UNCHANGED << stats, response_cache >>

\* del self.response_cache[oldest_key]; KeyError when the key is gone.
del_oldest(w) ==
    /\ Step(w, "del_oldest",
            [frame[w] EXCEPT !.at = IF InCache(response_cache, frame[w].oldest_key)
                                    THEN "assign" ELSE "load_errors",
                             !.oldest_key = NoKey])
    /\ response_cache' = CacheDel(response_cache, frame[w].oldest_key)
    /\ UNCHANGED stats

\* self.response_cache[key] = response, and the return of the reply.
assign(w) ==
    /\ Step(w, "assign", Returned(frame[w]))
    /\ response_cache' = CachePut(response_cache, frame[w].key, frame[w].content)
    /\ UNCHANGED stats

\* self.stats["errors"] += 1 in the else branch and the except clauses: the read.
load_errors(w) ==
    /\ Step(w, "load_errors",
            [frame[w] EXCEPT !.at = "store_errors", !.loaded = stats.errors])
    /\ UNCHANGED << stats, response_cache >>

\* self.stats["errors"] += 1: the write, and the return of the fixed message.
store_errors(w) ==
    /\ Step(w, "store_errors", Returned(frame[w]))
    /\ stats' = CountError([stats EXCEPT !.errors = frame[w].loaded])
    /\ UNCHANGED response_cache

CallersNext ==
    \/ \E w \in Workers, user_message \in Messages, context \in Contexts :
          call(w, user_message, << >>, context)
    \/ \E w \in Workers : load_requests(w)
    \/ \E w \in Workers : store_requests(w)
    \/ \E w \in Workers : test_cache(w)
    \/ \E w \in Workers : read_cache(w)
    \/ \E w \in Workers : post(w)
    \/ \E w \in Workers : load_tokens(w)
    \/ \E w \in Workers : store_tokens(w)
    \/ \E w \in Workers : test_size(w)
    \/ \E w \in Workers : pick_oldest(w)
    \/ \E w \in Workers : del_oldest(w)
    \/ \E w \in Workers : assign(w)
    \/ \E w \in Workers : load_errors(w)
    \/ \E w \in Workers : store_errors(w)

CallersSpec == CallersInit /\ [][CallersNext]_vars

(***************************************************************************)
(* The prompt assembly on its own: _prepare_messages applied to a user     *)
(* message, a history and a context.                                       *)
(***************************************************************************)
PromptInit ==
    /\ api_key = Chars(MinKeyLength, "k")
    /\ ClientConstructed
    /\ AssistantConstructed

prepare_messages(user_message, history, context) ==
    /\ prompt' = [user_message |-> user_message, history |-> history, context |-> context,
                  messages |-> _prepare_messages(user_message, history, context)]
    /\ UNCHANGED << api_key, client_available, response_cache, stats, last_call, frame,
                    assistantVars >>

PromptNext ==
    \E user_message \in Messages, history \in PromptHistories, context \in PromptContexts :
        prepare_messages(user_message, history, context)

PromptSpec == PromptInit /\ [][PromptNext]_vars

(***************************************************************************)
(* Claims.                                                                 *)
(***************************************************************************)
IsSuffix(s, h) == Len(s) <= Len(h) /\ s = SubSeq(h, (Len(h) - Len(s)) + 1, Len(h))

Min(a, b) == IF a <= b THEN a ELSE b

\* The numbers of the commands dequeued so far are 1 .. Dequeued.
Dequeued == submitted - Len(command_queue)

\* The handling of command i has ended.
Finished(i) == i <= Dequeued /\ \A w \in Workers : ~(InFlight(w) /\ cur[w].id = i)

\* The command's reply was appended to the history and announced.
Replied(w) == Count(log[w], "update:assistant") >= 1

\* An error-state notification was made for the command.
ErrorNotified(w) == Count(log[w], "state:error") >= 1

\* C1: the truncation that ends the append-append-truncate cycle of a command
\* leaves at most max_history messages, and they are the newest ones of the
\* history it found, in their order (a suffix of it, as long as the limit allows).
C1_TruncationKeepsNewest ==
    [][\A w \in Workers :
          (pc[w] = "truncate" /\ pc'[w] = "change_idle") =>
              /\ Len(conversation_history') <= max_history
              /\ IsSuffix(conversation_history', conversation_history)
              /\ Len(conversation_history') = Min(Len(conversation_history), max_history)]_vars

\* C1 witness: a command has just truncated a history that was over the limit.
C1_Witness ==
    \E w \in Workers :
        /\ pc[w] = "change_idle"
        /\ Count(log[w], "truncate") = 1
        /\ Len(conversation_history) = max_history

\* C2 (as claimed): in every reachable state the history holds at most
\* max_history messages.
C2_HistoryNeverExceedsMax == Len(conversation_history) <= max_history

\* C3 (as claimed): at most one worker is inside _process_command at any time.
C3_OneCommandAtATime == Cardinality({w \in Workers : Processing(w)}) <= 1

\* C4 (as claimed): while a command is being handled, the handling of every
\* command submitted before it has ended.
C4_SubmissionOrder ==
    \A w \in Workers :
        InFlight(w) => \A i \in 1 .. (cur[w].id - 1) : Finished(i)

\* C5 (as claimed): the revert timer started by the error of a command never
\* fires (setting the state to idle) while a later command is being handled
\* and has set the state to processing.
C5_RevertSuperseded ==
    [][\A t \in timers :
          t \notin timers' =>
              \A w \in Workers :
                  ~(InFlight(w) /\ cur[w].id > t /\ state = "processing")]_vars

\* C6 (as claimed): a command in whose handling an exception was raised ends
\* with the error state notified and exactly one on_error call.
C6_OneErrorNotification ==
    \A w \in Workers :
        (Ended(w) /\ level[w] >= 1) =>
            ErrorNotified(w) /\ Count(log[w], "on_error") = 1

\* C7 (as claimed): whenever the state is error, it is eventually idle again.
C7_ErrorRevertsToIdle == (state = "error") ~> (state = "idle")

\* C8 (as claimed): no exception raised while a command is handled ends the
\* worker thread.
C8_WorkerSurvives == \A w \in Workers : pc[w] \notin {"crashed", "dead"}

\* C9 (as claimed): a command ends with exactly one of the two outcomes, the
\* reply appended and announced, or an error-state notification.
C9_ExactlyOneOutcome == \A w \in Workers : Ended(w) => (Replied(w) # ErrorNotified(w))

\* C9 (amended): a command ends with at least one of the two outcomes, the
\* reply appended and announced, or an error-state notification; none ends
\* with neither, and a command may end with both.
C9_SomeOutcome == \A w \in Workers : Ended(w) => (Replied(w) \/ ErrorNotified(w))

\* C9 witness: a command has ended with both outcomes.
C9_Witness == \E w \in Workers : Ended(w) /\ Replied(w) /\ ErrorNotified(w)

\* C10: a command handled without exception has notified the state processing
\* exactly once and the state idle exactly once, and no assignment of the
\* state is without its notification.
C10_StateChangeNotifications ==
    /\ \A w \in Workers :
          (Ended(w) /\ level[w] = 0) =>
              /\ Count(log[w], "state:processing") = 1
              /\ Count(log[w], "state:idle") = 1
    /\ unnotified = 0

\* C10 witness: a command has been handled without exception.
C10_Witness == \E w \in Workers : Ended(w) /\ level[w] = 0 /\ state = "idle"

\* The worker has gone through the decision table for its command.
Decided(w) == reply[w].source # "none"

\* C11: when the skill matcher returned success with should_continue false, the
\* reply is exactly the skill's response, its source is "skill" and
\* generate_response was not called, whether the model is available or not.
C11_SkillOnlyReply ==
    \A w \in Workers :
        (Decided(w) /\ reply[w].skill_result.success
                    /\ ~reply[w].skill_result.should_continue) =>
            /\ reply[w].response = reply[w].skill_result.response
            /\ reply[w].source = "skill"
            /\ reply[w].calls = 0

\* C11 witness: such a skill result was decided while the model is available.
C11_Witness ==
    \E w \in Workers :
        /\ Decided(w) /\ available
        /\ reply[w].skill_result.success /\ ~reply[w].skill_result.should_continue

\* C12: when the skill result is not (success and not should_continue) and the
\* model is available, generate_response was called exactly once; the reply is
\* the skill's response, the separator and the model's reply with source
\* "hybrid" if the skill succeeded, the model's reply alone with source "ai" if not.
C12_ModelReply ==
    \A w \in Workers :
        (Decided(w) /\ available
           /\ ~(reply[w].skill_result.success /\ ~reply[w].skill_result.should_continue)) =>
            /\ reply[w].calls = 1
            /\ reply[w].skill_result.success =>
                  /\ reply[w].response =
                         reply[w].skill_result.response \o <<"\n\n">> \o AiResponse
                  /\ reply[w].source = "hybrid"
            /\ ~reply[w].skill_result.success =>
                  /\ reply[w].response = AiResponse
                  /\ reply[w].source = "ai"

\* C12 witness: a hybrid reply was composed.
C12_Witness ==
    \E w \in Workers :
        /\ Decided(w) /\ available
        /\ reply[w].skill_result.success /\ reply[w].skill_result.should_continue
        /\ reply[w].source = "hybrid"

\* C13: when the model is unavailable, generate_response was not called; the
\* reply is the skill's response with source "skill" if the skill succeeded,
\* else one of the fallback strings of the text with source "fallback".
C13_UnavailableReply ==
    \A w \in Workers :
        (Decided(w) /\ ~available) =>
            /\ reply[w].calls = 0
            /\ reply[w].skill_result.success =>
                  /\ reply[w].response = reply[w].skill_result.response
                  /\ reply[w].source = "skill"
            /\ ~reply[w].skill_result.success =>
                  /\ reply[w].response \in _get_fallback_response(cur[w].text)
                  /\ reply[w].source = "fallback"

\* C13 witness: a fallback reply was composed for a failed skill.
C13_Witness ==
    \E w \in Workers :
        /\ Decided(w) /\ ~available
        /\ ~reply[w].skill_result.success
        /\ reply[w].source = "fallback"

\* The model client has just answered a call.
Called == last_call.outcome # "none"

\* C14: the response cache never holds more than cache_size entries.
C14_CacheWithinCapacity == Len(response_cache) <= cache_size

\* C14 witness: a reply was stored when the cache was at capacity (more
\* replies have been stored than the cache can hold), and the cache is full.
C14_Witness ==
    /\ last_call.outcome = "ok"
    /\ stats.tokens_used > 3 * cache_size
    /\ Len(response_cache) = cache_size

\* C15: a reply stored while the cache is at capacity evicts exactly the
\* entry inserted earliest and becomes the newest entry; a cache hit leaves
\* the entries and their order as they are.
C15_EvictsOldestInserted ==
    [][/\ (last_call'.outcome = "ok" /\ last_call'.n # last_call.n
             /\ Len(response_cache) = cache_size) =>
              response_cache' =
                  Append(Tail(response_cache),
                         [key |-> last_call'.key, response |-> last_call'.response])
       /\ (last_call'.outcome = "hit" /\ last_call'.n # last_call.n) =>
              response_cache' = response_cache]_vars

\* C15 witness: after a call that stored nothing (such as a cache hit), a
\* reply was stored at capacity: the cache is full and its newest entry is
\* the reply of the last call.
C15_Witness ==
    /\ last_call.outcome = "ok"
    /\ stats.tokens_used > 3 * cache_size
    /\ 3 * stats.requests > stats.tokens_used
    /\ Len(response_cache) = cache_size
    /\ response_cache[cache_size].key = last_call.key

\* C16 (as claimed): a call on an available client whose last two messages
\* are those of the call before it is served from the cache: outcome hit,
\* metadata cached:true, no network request.
C16_SameTailServedFromCache ==
    [][(client_available /\ Called /\ last_call'.n # last_call.n
          /\ last_call'.tail = last_call.tail) =>
           /\ last_call'.outcome = "hit"
           /\ last_call'.metadata = Metadata({"cached"}, TRUE, 0)
           /\ ~last_call'.network]_vars

\* C16 (amended): a call on an available client whose last two messages are
\* those of the call before it, when that call returned a reply of the model
\* (a 200 response with a choice, or itself a cache hit), returns the same
\* reply with metadata cached:true and issues no network request.
C16_SameTailAfterStoredReply ==
    [][(client_available /\ last_call.outcome \in {"ok", "hit"}
          /\ last_call'.n # last_call.n /\ last_call'.tail = last_call.tail) =>
           /\ last_call'.outcome = "hit"
           /\ last_call'.response = last_call.response
           /\ last_call'.metadata = Metadata({"cached"}, TRUE, 0)
           /\ ~last_call'.network
           /\ response_cache' = response_cache]_vars

\* C16 witness: a call was served from the cache.
C16_Witness == client_available /\ last_call.outcome = "hit" /\ ~last_call.network

\* C17: the cache changes only in a call that ends with a 200 response with a
\* choice, and every cached reply is a reply of the model (never one of the
\* fixed messages).
C17_CacheWrittenOnlyBySuccess ==
    [][/\ last_call'.outcome # "ok" => response_cache' = response_cache
       /\ \A i \in 1 .. Len(response_cache') :
             response_cache'[i].response \in ModelContents]_vars

\* C17 witness: a call has failed while the cache held a reply.
C17_Witness == last_call.outcome \in FailedOutcomes /\ Len(response_cache) >= 1

\* C18: with a credential that is empty, a placeholder, or shorter than
\* MinKeyLength characters, the client is unavailable and every call returns
\* the unavailable message with empty metadata and no network request.
C18_RejectedCredential ==
    (api_key = << >> \/ api_key \in placeholder_keys \/ Len(api_key) < MinKeyLength) =>
        /\ ~client_available
        /\ Called =>
              /\ last_call.outcome = "unavailable"
              /\ last_call.response = UnavailableMessage
              /\ last_call.metadata = EmptyMetadata
              /\ ~last_call.network

\* C18 witness: a client with a short credential that is no placeholder was called.
C18_Witness ==
    /\ api_key # << >> /\ api_key \notin placeholder_keys /\ Len(api_key) < MinKeyLength
    /\ Called

\* C19 (as claimed): the requests counter is the number of calls made.
C19_EveryCallCounted == stats.requests = last_call.n

\* C19 (amended): on an available client the requests counter is the number
\* of calls made, whatever their outcomes; on an unavailable client the calls
\* leave it at zero.
C19_AvailableCallsCounted ==
    /\ client_available => stats.requests = last_call.n
    /\ ~client_available => stats.requests = 0

\* C19 witness: calls were counted on an available client, the last one a cache hit.
C19_Witness == client_available /\ last_call.outcome = "hit" /\ last_call.n >= 2

\* C20: a call that ends with another status, a timeout, a connection failure
\* or another exception adds one to the errors counter; a call that ends
\* with 401, 429, a cache hit or a 200 response with a choice leaves it.
C20_ErrorsCounted ==
    [][last_call'.n # last_call.n =>
          /\ last_call'.outcome \in {"status", "timeout", "connection", "exception"} =>
                stats'.errors = stats.errors + 1
          /\ last_call'.outcome \in {"unauthorized", "rate_limited", "hit", "ok"} =>
                stats'.errors = stats.errors]_vars

\* C20 witness: errors were counted, and the last call (a 401) left the counter.
C20_Witness == last_call.outcome = "unauthorized" /\ stats.errors >= 1

\* C21: every generate_response call returns a reply string and a metadata
\* mapping, whatever the outcome of the HTTP exchange; none ends with an
\* exception leaving the client.
C21_NeverRaises ==
    Called =>
        /\ last_call.outcome # "raised"
        /\ last_call.response # << >>
        /\ last_call.metadata.keys \subseteq {"model", "tokens", "cached", "finish_reason"}

\* C21 witness: an exception other than a timeout or a connection failure was
\* raised in the exchange, and the call returned the message made of it.
C21_Witness ==
    /\ last_call.outcome = "exception"
    /\ last_call.response = FixedMessage["exception"]
    /\ last_call.metadata = EmptyMetadata

\* C22: the assembled message list is one system message, then the last
\* HistoryWindow messages of the history (all of them when there are fewer)
\* in their order and with their roles, then the user message.
C22_PromptAssembly ==
    prompt # NoPrompt =>
        LET m == prompt.messages
            h == prompt.history
            k == Min(Len(h), HistoryWindow)
        IN  /\ Len(m) = k + 2
            /\ m[1].role = "system"
            /\ \A i \in 1 .. k : m[1 + i] = h[(Len(h) - k) + i]
            /\ m[Len(m)] = ConversationMessage("user", prompt.user_message)

\* C22 witness: the messages were assembled from a history longer than HistoryWindow.
C22_Witness == prompt # NoPrompt /\ Len(prompt.history) > HistoryWindow

\* The categories in the order of the claim, the keywords of each and its handler.
CategoryOrder ==
    <<"time", "weather", "system", "web", "calculation", "entertainment", "note",
      "reminder", "clear_history">>

CategoryWords ==
    <<TimeWords, WeatherWords, SystemWords, WebWords, CalculationWords, EntertainmentWords,
      NoteWords, ReminderWords, ClearWords>>

HandlerResults(i, text) ==
    CASE i = 1 -> _skill_time(text)
      [] i = 2 -> _skill_weather(text)
      [] i = 3 -> _skill_system(text)
      [] i = 4 -> _skill_web(text)
      [] i = 5 -> _skill_calculation(text)
      [] i = 6 -> _skill_entertainment(text)
      [] i = 7 -> _skill_note(text)
      [] i = 8 -> _skill_reminder(text)
      [] i = 9 -> _skill_clear_history(text)

\* The categories a keyword of which is in the text, whatever the case of its letters.
Matching(text) == {i \in 1 .. 9 : Has(lower(text), CategoryWords[i])}

\* The worker has the SkillResult of its command.
Matched(w) == Decided(w) /\ ~reply[w].skill_result.raised

\* C23: the result of _check_skills is a result of the handler of the earliest
\* category, in the fixed order, that has a keyword in the text (as a
\* substring, in any case of the letters); a text with no keyword gets
\* success = false and should_continue = true.
C23_EarliestCategoryHandles ==
    \A w \in Workers :
        Matched(w) =>
            LET text == cur[w].text
                m == Matching(text)
            IN  IF m = {}
                THEN /\ ~reply[w].skill_result.success
                     /\ reply[w].skill_result.should_continue
                     /\ reply[w].skill_result.response = << >>
                ELSE reply[w].skill_result
                         \in HandlerResults(CHOOSE i \in m : \A j \in m : i <= j, text)

\* C23 witness: a text with a weather keyword and a time keyword was answered
\* with the time.
C23_Witness ==
    /\ Matched(1)
    /\ {1, 2} \subseteq Matching(cur[1].text)
    /\ reply[1].skill_result \in _skill_time(cur[1].text)

\* The replies made of a formatted time or date.
TimeReplies ==
    { <<"seychas", "%H:%M:%S">>, <<"segodnya", "%d %B %Y", "weekday">>,
      <<"seychas", "%H:%M, %d.%m.%Y">> }

\* C24: a command whose text has a time keyword gets success = true and
\* should_continue = false with a reply made of a formatted time or date, and
\* that reply is the whole answer: generate_response is not called for it.
C24_TimeAnsweredWithoutModel ==
    \A w \in Workers :
        (Decided(w) /\ Has(lower(cur[w].text), TimeWords)) =>
            /\ ~reply[w].skill_result.raised
            /\ reply[w].skill_result.success
            /\ ~reply[w].skill_result.should_continue
            /\ reply[w].skill_result.response \in TimeReplies
            /\ reply[w].response = reply[w].skill_result.response
            /\ reply[w].source = "skill"
            /\ reply[w].calls = 0

\* C24 witness: the model was available, and a command with a time keyword in
\* capitals was answered by the skill alone.
C24_Witness ==
    /\ Decided(1)
    /\ available
    /\ cur[1].text = <<"VREMYA">>
    /\ reply[1].source = "skill"

\* The command of the worker was handled by _skill_calculation.
Calculated(w) == Matched(w) /\ SkillCategory(cur[w].text) = "calculation"

\* The expression left of the text when the calculation keywords are stripped.
Residual(text) == StripSpaces(Strip(lower(text), CalculationKeywords))

Refused(w) ==
    /\ reply[w].skill_result.success
    /\ reply[w].skill_result.response = OnlySimpleExpressions
    /\ ~reply[w].skill_result.should_continue

SimpleCharacters == Digits \cup {"+", "-", "*", "/", ".", "(", ")", " "}

\* C25 as stated: a residual expression with a character outside
\* 0123456789+-*/.() and the blank is refused with the fixed message and
\* should_continue = false.  It fails for the residual 2x3.
C25_ResidualRefused ==
    \A w \in Workers :
        (Calculated(w)
           /\ \E i \in 1 .. Len(Residual(cur[w].text)) :
                  Residual(cur[w].text)[i] \notin SimpleCharacters) =>
            Refused(w)

\* C25: a residual expression with a character that is neither in
\* 0123456789+-*/.() and the blank nor the letter x (Latin or Cyrillic) nor the
\* comma is refused with the fixed message and should_continue = false.
C25_OtherCharactersRefused ==
    \A w \in Workers :
        (Calculated(w)
           /\ \E i \in 1 .. Len(Residual(cur[w].text)) :
                  Residual(cur[w].text)[i] \notin SimpleCharacters \cup {"x", "kha", ","}) =>
            Refused(w)

\* C25 witness: the residual 2^3 was refused.
C25_Witness ==
    /\ Calculated(1)
    /\ Residual(cur[1].text) = <<"2", "^", "3">>
    /\ Refused(1)

\* The expression that _skill_calculation hands to eval, when it gets that far.
Evaluated(w) ==
    /\ Calculated(w)
    /\ Residual(cur[w].text) # << >>
    /\ \A i \in 1 .. Len(Residual(cur[w].text)) :
           Residual(cur[w].text)[i] \in SimpleCharacters \cup {"x", "kha", ","}

Expression(w) == Normalise(Residual(cur[w].text))

\* C26: when the evaluation raises ZeroDivisionError the skill returns
\* success = true, the fixed zero-division message and should_continue = false,
\* and generate_response is not called; when it raises anything else the skill
\* returns success = false, and the answer is the model's or the fallback's.
C26_ZeroDivisionAndOtherFailures ==
    \A w \in Workers :
        Evaluated(w) =>
            /\ PyEval(Expression(w)).outcome = "zero_division" =>
                  /\ reply[w].skill_result.success
                  /\ reply[w].skill_result.response = DivisionByZero
                  /\ ~reply[w].skill_result.should_continue
                  /\ reply[w].response = DivisionByZero
                  /\ reply[w].calls = 0
            /\ PyEval(Expression(w)).outcome = "error" =>
                  /\ ~reply[w].skill_result.success
                  /\ reply[w].source = (IF available THEN "ai" ELSE "fallback")

\* C26 witness: the model was available and 1/(2-2) was answered with the
\* zero-division message.
C26_Witness ==
    /\ Evaluated(1)
    /\ available
    /\ Expression(1) = <<"1", "/", "(", "2", "-", "2", ")">>
    /\ reply[1].response = DivisionByZero

\* Well-formed arithmetic expressions over digits, + - * / and parentheses with
\* no zero divisor, and the value of each as the fraction num/den.
ArithmeticValue ==
    (<<"2", "+", "2">> :> [num |-> 4, den |-> 1])
    @@ (<<"4", "/", "2">> :> [num |-> 2, den |-> 1])
    @@ (<<"(", "2", "+", "3", ")", "*", "4">> :> [num |-> 20, den |-> 1])
    @@ (<<"2", "-", "5">> :> [num |-> 0 - 3, den |-> 1])
    @@ (<<"7", "/", "2">> :> [num |-> 7, den |-> 2])
    @@ (<<"1", "2", " ", "+", " ", "3", "0">> :> [num |-> 42, den |-> 1])
    @@ (<<"0", "1", "0", "+", "1">> :> [num |-> 11, den |-> 1])

\* The decimal numeral s (a sign, digits and at most one point) denotes num/den.
Denotes(s, num, den) ==
    LET negative == s # << >> /\ s[1] = "-"
        numeral == IF negative THEN Tail(s) ELSE s
    IN  /\ numeral # << >>
        /\ \A i \in 1 .. Len(numeral) : numeral[i] \in Digits \cup {"."}
        /\ Count(numeral, ".") <= 1
        /\ Len(numeral) > Count(numeral, ".")
        /\ LiteralValue(numeral).num * den
               = (IF negative THEN 0 - num ELSE num) * LiteralValue(numeral).den

\* C27: a calculation command whose residual is a well-formed arithmetic
\* expression with no zero divisor succeeds with the reply
\* "<expression> = <value>", the value being the arithmetic result.  It fails
\* for 010+1.
C27_ArithmeticResult ==
    \A w \in Workers :
        (Calculated(w) /\ Residual(cur[w].text) \in DOMAIN ArithmeticValue) =>
            LET expression == Residual(cur[w].text)
                response == reply[w].skill_result.response
                value == ArithmeticValue[expression]
            IN  /\ reply[w].skill_result.success
                /\ Len(response) > Len(expression) + 3
                /\ SubSeq(response, 1, Len(expression) + 3) = expression \o <<" ", "=", " ">>
                /\ Denotes(SubSeq(response, Len(expression) + 4, Len(response)),
                           value.num, value.den)

\* C28: a clear-history command leaves the conversation history empty when the
\* skill returns, the skill returns success = true and should_continue = false,
\* and the skill reply is the whole answer: generate_response is not called.
C28_ClearHistorySkill ==
    \A w \in Workers :
        (Matched(w) /\ SkillCategory(cur[w].text) = "clear_history") =>
            /\ pc[w] = "append_assistant" => conversation_history = << >>
            /\ reply[w].skill_result.success
            /\ ~reply[w].skill_result.should_continue
            /\ reply[w].response = reply[w].skill_result.response
            /\ reply[w].calls = 0

\* C28 witness: the model was available, the skill has returned to
\* _process_command, and the history (which held the user message of the
\* command) is empty.
C28_Witness ==
    /\ Matched(1)
    /\ available
    /\ cur[1].text = <<"ochisti", " ", "istoriyu">>
    /\ pc[1] = "append_assistant"
    /\ conversation_history = << >>

\* The query left of the text when the web keywords are stripped.
Query(text) ==
    StripSpaces(Strip(lower(text),
                      << <<"naydi">>, <<"po", "ishchi">>, <<"ishchi">>, <<"nayti">>, <<"gugl">>,
                         <<"brauzer">>, <<"yutub">>, <<"youtube">> >>))

\* C29: in the web-search skill an empty residual query gets the clarification
\* prompt with should_continue = false and no call of webbrowser.open; a
\* non-empty one gets exactly one call of webbrowser.open, of the video
\* platform when the text has a video-platform keyword and of the search
\* engine otherwise, and should_continue = true.
C29_WebSearchNavigation ==
    \A w \in Workers :
        (Matched(w) /\ SkillCategory(cur[w].text) = "web") =>
            LET result == reply[w].skill_result
                query == Query(cur[w].text)
            IN  IF query = << >>
                THEN /\ result.success
                     /\ result.response = <<"chto imenno vy khotite nayti?">>
                     /\ ~result.should_continue
                     /\ result.opened = << >>
                ELSE /\ result.should_continue
                     /\ Len(result.opened) = 1
                     /\ result.opened[1] =
                            (IF Has(lower(cur[w].text), { <<"yutub">>, <<"youtube">> })
                             THEN <<"https://www.youtube.com/results?search_query=">>
                             ELSE <<"https://www.google.com/search?q=">>) \o query

\* C29 witness: a search with a video-platform keyword opened the video
\* platform with the query.
C29_Witness ==
    /\ Matched(1)
    /\ SkillCategory(cur[1].text) = "web"
    /\ reply[1].skill_result.success
    /\ reply[1].skill_result.opened
           = << <<"https://www.youtube.com/results?search_query=", "kotiki">> >>

\* C30: while the assistant is running no worker is spawned, and a step that is
\* neither a worker's, a timer's nor a stop() (a start() among them) leaves the
\* state and fires no notification; a start() of an assistant that is not
\* running spawns exactly one worker and fires one notification of the idle
\* state, which at the first start() is the state already held.
C30_StartOnceRunning ==
    [][/\ is_running =>
             /\ processing_thread' = processing_thread
             /\ \A w \in Workers : pc[w] = "unborn" => pc'[w] = "unborn"
       /\ (is_running /\ is_running' /\ pc' = pc /\ level' = level /\ timers' = timers
                     /\ ui' = ui) =>
             /\ state' = state
             /\ unnotified' = unnotified
       /\ (~is_running /\ is_running') =>
             /\ processing_thread' = processing_thread + 1
             /\ pc[processing_thread'] = "unborn"
             /\ pc'[processing_thread'] = "loop"
             /\ \A w \in Workers \ {processing_thread'} : pc'[w] = pc[w]
             /\ state' = "idle"
             /\ unnotified' = unnotified
             /\ processing_thread = 0 => state = "idle"]_vars

\* C30 witness: the first start() has made the one worker, and the state is idle.
C30_Witness ==
    /\ is_running
    /\ processing_thread = 1
    /\ pc[1] = "loop"
    /\ cur[1] = NoCommand
    /\ state = "idle"
    /\ unnotified = 0

\* stop() has returned and start() has not been called since.
Stopped == ~is_running /\ ui = "ready" /\ processing_thread # 0

\* C31 (as claimed): once stop() has returned, the state is idle until start()
\* is called again.
C31_StoppedStaysIdle == Stopped => state = "idle"

\* C32 (as claimed): after stop() has been called (and until start() is called
\* again) no worker takes a command from the queue.
C32_NoDequeueAfterStop ==
    [][\A w \in Workers :
          (pc[w] = "get" /\ pc'[w] = "change_processing") => is_running]_vars

\* C33 (as claimed): while a command is being processed, a step that is not a
\* worker's (a call from another thread) leaves the conversation history as it is.
C33_HistoryOnlyByWorker ==
    [][((\E w \in Workers : Processing(w)) /\ pc' = pc /\ level' = level) =>
          conversation_history' = conversation_history]_vars

\* The limit of the configuration the assistant was constructed with.
ConfiguredLimit == config.assistant.max_history

\* C34 (as claimed): the truncation cuts the history to the configured limit,
\* keeping the newest messages, whenever the history is longer than it.
C34_ConfiguredLimitApplied ==
    [][\A w \in Workers :
          (pc[w] = "truncate" /\ pc'[w] = "change_idle") =>
              conversation_history' =
                  (IF Len(conversation_history) > ConfiguredLimit
                   THEN SubSeq(conversation_history,
                               (Len(conversation_history) - ConfiguredLimit) + 1,
                               Len(conversation_history))
                   ELSE conversation_history)]_vars

\* C35: a command handled without exception has done, in this order: the
\* notification of processing, the append of the user message, the
\* conversation update with it, the skill matching, the append of the
\* assistant message, the conversation update with it, the notification of the
\* reply metadata, the truncation (when the history is over the limit) and the
\* notification of idle.
C35_OrderOfEvents ==
    \A w \in Workers :
        (Ended(w) /\ level[w] = 0) =>
            /\ SelectSeq(log[w], LAMBDA e : e # "truncate")
                  = <<"state:processing", "append:user", "update:user", "check_skills",
                      "append:assistant", "update:assistant", "ai_response", "state:idle">>
            /\ Count(log[w], "truncate") <= 1
            /\ Count(log[w], "truncate") = 1 =>
                  /\ Len(log[w]) = 9
                  /\ log[w][8] = "truncate"

\* C35 witness: a command was handled without exception and the history was
\* truncated in it.
C35_Witness ==
    \E w \in Workers : Ended(w) /\ level[w] = 0 /\ Count(log[w], "truncate") = 1

\* start() was called and stop() is never called after it.
NeverStopped == <>is_running /\ [](is_running => []is_running)

\* C36 (as claimed): when the assistant is started and never stopped, every
\* submitted command is eventually taken from the queue and its handling ends.
C36_EveryCommandProcessed ==
    NeverStopped => \A i \in 1 .. MaxCommands : (submitted >= i) ~> Finished(i)

\* C37 (as claimed): the messages assembled for a model call hold the current
\* command text as a user message exactly once.
C37_CommandOnceInPrompt ==
    \A w \in Workers :
        (Decided(w) /\ reply[w].calls = 1) =>
            Count(reply[w].prompt, ConversationMessage("user", cur[w].text)) = 1

\* C38: when a clear-history command has been handled to its end, the history
\* holds one message, the assistant's acknowledgement; the user message of the
\* command is not in it.
C38_OnlyAcknowledgementLeft ==
    \A w \in Workers :
        (Ended(w) /\ level[w] = 0 /\ SkillCategory(cur[w].text) = "clear_history") =>
            conversation_history
                = << ConversationMessage("assistant", <<"istoriya dialoga ochishchena">>) >>

\* C38 witness: a clear-history command has been handled to its end with the
\* model available.
C38_Witness ==
    /\ Ended(1)
    /\ level[1] = 0
    /\ available
    /\ cur[1].text = <<"novaya", " ", "sessiya">>
    /\ Len(conversation_history) = 1


\* C39: self.state only ever takes the values idle, processing and error;
\* no sequence of start(), stop(), send_text_command(), worker steps and timer
\* firings puts it in listening or speaking.
C39_StateValues == state \in {"idle", "processing", "error"}

\* The error state taken after stop(), with the timer that reverts it pending.
C39_Witness == state = "error" /\ Stopped /\ timers # {}


\* C40: in every reachable state of the model client errors <= requests: the
\* errors counter is only incremented inside a call that has already
\* incremented the requests counter.
C40_ErrorsAtMostRequests == stats.errors <= stats.requests

====
